---- MODULE Spec2Model ----
(***************************************************************************)
(* The pull-request description generator: PullRequestUpdater.run (event   *)
(* check, git fetch, description and title generation, publication) and    *)
(* the Gemini generation helper it calls: configuration resolution         *)
(* (MAX_OUTPUT_TOKENS, model name), the retry/backoff/model-fallback loop  *)
(* generateWithRetry, and the MAX_TOKENS follow-up of                      *)
(* createPullRequestDescription.                                           *)
(*                                                                         *)
(* Two implementations of the helper live in the sources and both are      *)
(* modelled; `impl` says which one the resolver constructed:               *)
(*   "config"  the class built from a GeminiConfig by aiHelperResolver     *)
(*             (src/unnamed/part_002, src/src/ai/ai-helper-resolver.ts)    *)
(*   "legacy"  the helper that reads its settings at call time             *)
(*             (src/src/ai/gemini-ai-helper.ts)                            *)
(* Strings the code inspects (error messages, the environment override,    *)
(* response texts) are sequences of one-character strings.                 *)
(***************************************************************************)
EXTENDS Integers, Sequences, FiniteSets, TLC

VARIABLES
    impl,                  \* which helper implementation was constructed
    env,                   \* process.env.MAX_OUTPUT_TOKENS: [set, value]
    modelParam,            \* aiHelperParams.model ("" when not given)
    config,                \* GeminiConfig built by the resolver ("config" impl)
    pc,                    \* where createPullRequestDescription is suspended
    modelName,             \* local modelName of createPullRequestDescription
    initialMaxOutputTokens,\* local initialMaxOutputTokens / maxOutputTokens
    payload,               \* the request handed to generateContent
    sentModel,             \* the model the request in flight was sent to
    ordered,               \* generateWithRetry: the fallback ladder
    currentModelIndex,     \* generateWithRetry: index into ordered (0-based)
    currentModel,          \* generateWithRetry: model of the current attempt
    consecutive503,        \* generateWithRetry: consecutive 503 counter
    attempt,               \* generateWithRetry: loop counter
    calls,                 \* provider calls issued by this generateWithRetry call
    sleeps,                \* backoff sleeps started by this generateWithRetry call
    err,                   \* the error the provider raised for the last call
    retryOutcome,          \* "none" | "pending" | "returned" | "threw"
    servedAttempt,         \* attempt whose result generateWithRetry returned
    modelUsed,             \* modelUsed returned by generateWithRetry
    text,                  \* local text of createPullRequestDescription
    result,                \* the text createPullRequestDescription resolved with
    cause,                 \* the error createPullRequestDescription caught
    faultsLeft,            \* failures the provider may still inject (-1: any number)
    prompt,                \* parameter prompt of createPullRequestDescription
    response,              \* local response: the first successful response
    followUp,              \* local retryResp / contResp: the follow-up's response
    sent,                  \* the requests this call built, in order
    followUpCalls,         \* provider calls issued after the first response
    delay,                 \* generateWithRetry: backoff delay of the attempt (ms)
    randoms,               \* the values Math.random() may return (thousandths)
    eventName,             \* context.eventName
    updateTitleInput,      \* getInput("update_title")
    geminiModelInput,      \* getInput("gemini_model") ("" when not given)
    phase,                 \* where run() is suspended
    trace,                 \* the external calls run() has started or seen end
    failed,                \* the messages handed to setFailed, in order
    outputs,               \* the outputs set with setOutput, in order
    runError,              \* the error caught by the catch block of run()
    generatedDescription,  \* local generatedDescription of run()
    rawTitle,              \* local rawTitle of run()
    currentDescription,    \* local currentDescription: the body pulls.get returned
    diffOutput,            \* what getGitDiff returns in this run
    changedFiles,          \* what getChangedFiles returns in this run
    currentTitle,          \* context.payload.pull_request.title || ''
    generatedTitle,        \* local generatedTitle of run(): [set, value]
    comments,              \* the bodies of the comments created on the pull request
    updateRequests,        \* the params of the pulls.update calls issued
    usage,                 \* the usageMetadata the provider reports in this run
    usageLog               \* what logUsageDiagnostics computed last

vars == << impl, env, modelParam, config, pc, modelName, initialMaxOutputTokens,
           payload, sentModel, ordered, currentModelIndex, currentModel,
           consecutive503, attempt, calls, sleeps, err, retryOutcome,
           servedAttempt, modelUsed, text, result, cause, faultsLeft,
           prompt, response, followUp, sent, followUpCalls, delay, randoms,
           eventName, updateTitleInput, geminiModelInput, phase, trace, failed,
                 outputs,
           runError, generatedDescription, rawTitle, currentDescription,
           diffOutput, changedFiles, currentTitle, generatedTitle, comments,
           updateRequests, usage, usageLog >>

\* The state of PullRequestUpdater.run.
driverVars == << eventName, updateTitleInput, geminiModelInput, phase, trace, failed,
                 outputs,
                 runError, generatedDescription, rawTitle, currentDescription,
                 diffOutput, changedFiles, currentTitle, generatedTitle,
                 comments, updateRequests >>
\* The state of the AI helper.
helperVars == << impl, env, modelParam, config, pc, modelName,
                 initialMaxOutputTokens, payload, sentModel, ordered,
                 currentModelIndex, currentModel, consecutive503, attempt,
                 calls, sleeps, err, retryOutcome, servedAttempt, modelUsed,
                 text, result, cause, faultsLeft, prompt, response, followUp,
                 sent, followUpCalls, delay, randoms, usage, usageLog >>

(***************************************************************************)
(* Bounds of the model.                                                    *)
(***************************************************************************)
\* Provider failures per run under Spec.
MaxFaults == 2
\* Provider failures per run under SpecFallback (enough for two ladder switches).
MaxFallbackFaults == 12

Unlimited == 0 - 1

(***************************************************************************)
(* Program constants.                                                      *)
(***************************************************************************)
\* maxAttempts off by one.
maxAttemptsPlusOne == 100 + 1
maxAttempts == 100
baseDelayMs == 1000
maxDelayMs == 30000
jitterMs == 250
Threshold503 == 10
MinOutputTokens == 768
DefaultMaxOutputTokens == 1536
LegacyDefaultMaxOutputTokens == 2048

DefaultModel == "gemini-2.5-flash"
ladder == << "gemini-2.5-pro", "gemini-2.5-flash", "gemini-1.5-flash" >>

(***************************************************************************)
(* Character-level helpers.                                                *)
(***************************************************************************)
Digits == << "0", "1", "2", "3", "4", "5", "6", "7", "8", "9" >>
IsDigit(c) == \E i \in 1..Len(Digits) : Digits[i] = c
DigitVal(c) == (CHOOSE i \in 1..Len(Digits) : Digits[i] = c) - 1

Upper == << "A", "B", "C", "D", "E", "F", "G", "H", "I", "J", "K", "L", "M",
            "N", "O", "P", "Q", "R", "S", "T", "U", "V", "W", "X", "Y", "Z" >>
Lower == << "a", "b", "c", "d", "e", "f", "g", "h", "i", "j", "k", "l", "m",
            "n", "o", "p", "q", "r", "s", "t", "u", "v", "w", "x", "y", "z" >>
IsLetter(c) == \E i \in 1..Len(Upper) : Upper[i] = c \/ Lower[i] = c
\* String.prototype.toLowerCase on one character (the /i flag of a RegExp).
ToLowerChar(c) ==
    IF \E i \in 1..Len(Upper) : Upper[i] = c
    THEN Lower[CHOOSE i \in 1..Len(Upper) : Upper[i] = c]
    ELSE c
\* \w of a RegExp.
IsWordChar(c) == IsLetter(c) \/ IsDigit(c) \/ c = "_"
\* \s of a RegExp / what String.prototype.trim removes.
IsSpace(c) == c \in {" ", "\n", "\t"}

\* pat occurs in s at position i.
OccursAt(s, pat, i) ==
    /\ i >= 1
    /\ i + Len(pat) - 1 <= Len(s)
    /\ \A j \in 1..Len(pat) : s[i + j - 1] = pat[j]
\* /pat/.test(s)
Contains(s, pat) == \E i \in 1..Len(s) : OccursAt(s, pat, i)
\* /pat/i.test(s), pat in lower case
ContainsIgnoreCase(s, pat) ==
    Contains([k \in 1..Len(s) |-> ToLowerChar(s[k])], pat)
\* /\bpat\b/.test(s), pat made of word characters
ContainsWord(s, pat) ==
    \E i \in 1..Len(s) :
        /\ OccursAt(s, pat, i)
        /\ (i = 1 \/ ~IsWordChar(s[i - 1]))
        /\ (i + Len(pat) > Len(s) \/ ~IsWordChar(s[i + Len(pat)]))

\* The length of the longest prefix of s made of characters of class.
LeadingRun(s, class) ==
    CHOOSE n \in 0..Len(s) :
        /\ \A k \in 1..n : s[k] \in class
        /\ (n = Len(s) \/ s[n + 1] \notin class)
\* The length of the longest suffix of s made of characters of class.
TrailingRun(s, class) ==
    CHOOSE n \in 0..Len(s) :
        /\ \A k \in (Len(s) - n + 1)..Len(s) : s[k] \in class
        /\ (n = Len(s) \/ s[Len(s) - n] \notin class)
DropStart(s, n) == SubSeq(s, n + 1, Len(s))
DropEnd(s, n) == SubSeq(s, 1, Len(s) - n)
Spaces == { " ", "\n", "\t" }
TrimStart(s) == DropStart(s, LeadingRun(s, Spaces))
TrimEnd(s) == DropEnd(s, TrailingRun(s, Spaces))
\* String.prototype.trim
Trim(s) == TrimEnd(TrimStart(s))

RECURSIVE Join(_)
\* Array.prototype.join('')
Join(parts) == IF parts = << >> THEN << >> ELSE Head(parts) \o Join(Tail(parts))

(***************************************************************************)
(* Number.parseInt(str, 10): leading white space is skipped, an optional   *)
(* sign is read, then decimal digits up to the first other character; no   *)
(* digit gives NaN.                                                        *)
(***************************************************************************)
NaN == [nan |-> TRUE, val |-> 0]
RECURSIVE LeadingDigits(_)
LeadingDigits(s) ==
    IF s # << >> /\ IsDigit(Head(s)) THEN 1 + LeadingDigits(Tail(s)) ELSE 0
RECURSIVE DecimalValue(_)
DecimalValue(s) ==
    IF s = << >> THEN 0
    ELSE 10 * DecimalValue(SubSeq(s, 1, Len(s) - 1)) + DigitVal(s[Len(s)])
ParseInt(str) ==
    LET s    == TrimStart(str)
        neg  == s # << >> /\ Head(s) = "-"
        body == IF s # << >> /\ Head(s) \in {"+", "-"} THEN Tail(s) ELSE s
        n    == LeadingDigits(body)
    IN  IF n = 0 THEN NaN
        ELSE [nan |-> FALSE,
              val |-> (IF neg THEN 0 - 1 ELSE 1) * DecimalValue(SubSeq(body, 1, n))]
\* Number.isFinite on a parseInt result
IsFinite(x) == ~x.nan

\* process.env.MAX_OUTPUT_TOKENS || ''
EnvOrEmpty(e) == IF e.set THEN e.value ELSE << >>
Max(a, b) == IF a >= b THEN a ELSE b

\* aiHelperResolver: maxOutputTokens of the GeminiConfig.
ResolverMaxOutputTokens(e) ==
    LET maxTokensEnv == ParseInt(EnvOrEmpty(e))
    IN  IF IsFinite(maxTokensEnv) /\ maxTokensEnv.val > 0
        THEN Max(MinOutputTokens, maxTokensEnv.val)
        ELSE DefaultMaxOutputTokens
\* legacy helper: maxOutputTokens computed in createPullRequestDescription.
LegacyMaxOutputTokens(e) ==
    LET maxTokensEnv == ParseInt(EnvOrEmpty(e))
    IN  IF IsFinite(maxTokensEnv) /\ maxTokensEnv.val > 0
        THEN maxTokensEnv.val
        ELSE LegacyDefaultMaxOutputTokens
\* (model || 'gemini-2.5-flash').trim() / this.model?.trim() || 'gemini-2.5-flash';
\* model names carry no surrounding white space here.
ResolveModelName(m) == IF m = "" THEN DefaultModel ELSE m

\* Bumped rounding down instead of up.
BumpedFloor(n) == (3 * n) \div 2
\* Math.ceil(initialMaxOutputTokens * 1.5)
Bumped(n) == (3 * n + 1) \div 2

(***************************************************************************)
(* Provider errors: an optional numeric status (0: none) and a message.    *)
(***************************************************************************)
NoErr == [status |-> 0, msg |-> << >>]
\* new Error('Exhausted retry attempts for Gemini generateContent')
ExhaustedError ==
    [status |-> 0, msg |-> << "E", "x", "h", "a", "u", "s", "t", "e", "d" >>]

ErrStatus429  == [status |-> 429, msg |-> << "b", "a", "d" >>]
ErrMessage429 == [status |-> 0, msg |-> << "g", "o", "t", " ", "4", "2", "9" >>]
ErrStatus503  == [status |-> 503, msg |-> << "b", "a", "d" >>]
ErrOverloaded ==
    [status |-> 0, msg |-> << "O", "v", "e", "r", "l", "o", "a", "d", "e", "d" >>]
ErrStatus500  == [status |-> 500, msg |-> << "b", "a", "d" >>]
ErrMessage4290 == [status |-> 0, msg |-> << "4", "2", "9", "0" >>]

\* What the provider may raise.
ProviderErrors ==
    { ErrStatus429, ErrMessage429, ErrStatus503, ErrOverloaded,
      ErrStatus500, ErrMessage4290 }

\* Is429 without the word boundaries of /\b429\b/.
Is429Loose(e) == e.status = 429 \/ Contains(e.msg, << "4", "2", "9" >>)
\* is429 = status === 429 || /\b429\b/.test(msg)
Is429(e) == e.status = 429 \/ ContainsWord(e.msg, << "4", "2", "9" >>)
\* is503 = status === 503 || /\b503\b/.test(msg)
\*         || /overload|unavailable|temporarily/i.test(msg)
Is503(e) ==
    \/ e.status = 503
    \/ ContainsWord(e.msg, << "5", "0", "3" >>)
    \/ ContainsIgnoreCase(e.msg, << "o", "v", "e", "r", "l", "o", "a", "d" >>)
    \/ ContainsIgnoreCase(e.msg,
           << "u", "n", "a", "v", "a", "i", "l", "a", "b", "l", "e" >>)
    \/ ContainsIgnoreCase(e.msg,
           << "t", "e", "m", "p", "o", "r", "a", "r", "i", "l", "y" >>)
\* if (is429 || is503) { ... retry ... }
IsRetryable(e) == Is429(e) \/ Is503(e)

\* if (is503) consecutive503++; without the else branch.
Count503NoReset(e, n) == IF Is503(e) THEN n + 1 ELSE n
\* if (is503) consecutive503++; else consecutive503 = 0;
Count503(e, n) == IF Is503(e) THEN n + 1 ELSE 0
\* is503 && consecutive503 > 10 && currentModelIndex < ordered.length - 1
ShouldSwitch(e, n, idx, ord) ==
    Is503(e) /\ n > Threshold503 /\ idx < Len(ord) - 1
\* NextModelIndex skipping a ladder entry.
NextModelIndexSkip(idx) == idx + 2
\* ++currentModelIndex
NextModelIndex(idx) == idx + 1
\* LastAttempt letting the 100th failure sleep as well.
LastAttemptLate(a) == a > maxAttempts
\* LastAttempt giving up one attempt early.
LastAttemptEarly(a) == a >= maxAttempts - 1
\* if (attempt >= maxAttempts) throw err;
LastAttempt(a) == a >= maxAttempts
\* for (...; attempt <= maxAttempts; ...)
LoopContinues(a) == a <= maxAttempts

(***************************************************************************)
(* The backoff delay of an attempt:                                        *)
(*   Math.min(baseDelayMs * Math.pow(2, attempt - 1), maxDelayMs)          *)
(*     + Math.floor(Math.random() * jitterMs)                              *)
(* The code computes the product in double precision, where 1000 * 2^99    *)
(* is exact; here the doubling saturates at maxDelayMs at every step,      *)
(* which gives the same minimum without leaving the integers TLC has.      *)
(***************************************************************************)
Min(a, b) == IF a <= b THEN a ELSE b
\* Exponent using attempt instead of attempt - 1.
ExponentOffByOne(a) == a
\* the exponent attempt - 1
Exponent(a) == a - 1
RECURSIVE CappedPow(_)
\* Math.min(baseDelayMs * Math.pow(2, k), maxDelayMs)
CappedPow(k) ==
    IF k <= 0 THEN Min(baseDelayMs, maxDelayMs)
    ELSE Min(2 * CappedPow(k - 1), maxDelayMs)
\* Math.floor(Math.random() * jitterMs), Math.random() = rnd / 1000
Jitter(rnd) == (rnd * jitterMs) \div 1000
\* const delay = ...
Delay(a, rnd) == CappedPow(Exponent(a)) + Jitter(rnd)

\* Ordered without the filter that removes the requested model.
OrderedNoFilter(initialModel) == << initialModel >> \o ladder
\* ordered = [initialModel, ...ladder.filter(m => m !== initialModel)]
Ordered(initialModel) ==
    << initialModel >> \o SelectSeq(ladder, LAMBDA m : m # initialModel)
\* ordered[i] of the code (0-based)
ModelAt(ord, i) == ord[i + 1]

(***************************************************************************)
(* Provider responses: a finish reason and the candidate's text parts.     *)
(***************************************************************************)
FinishReasons == { "STOP", "MAX_TOKENS", "SAFETY" }
\* IsMaxTokens taking every finish reason but STOP for a truncation.
IsMaxTokensLoose(fr) == fr # "STOP"
\* finishReason === FinishReason.MAX_TOKENS
IsMaxTokens(fr) == fr = "MAX_TOKENS"
PartLists ==
    { << >>,
      << << "a" >> >>,
      << << " " >> >>,
      << << "a", " " >>, << "b" >> >>,
      << << " ", "a", " " >> >> }
Responses == [finishReason : FinishReasons, parts : PartLists]

\* response.text() of the SDK: the candidate's text parts joined.
ResponseText(resp) == Join(resp.parts)
\* GeminiAIHelper.concatCandidatePartsText
concatCandidatePartsText(resp) ==
    IF Len(resp.parts) = 0 THEN Trim(ResponseText(resp)) ELSE Trim(Join(resp.parts))
\* !text || text.trim().length === 0
IsBlank(t) == t = << >> \/ Len(Trim(t)) = 0

NewLines == << "\n", "\n" >>

(***************************************************************************)
(* Requests: the turns (contents) and generationConfig.maxOutputTokens.    *)
(* The prompts, the system text and the continue instruction are fixed     *)
(* texts, written here as one-token strings.                               *)
(***************************************************************************)
\* config.systemText
systemText == << "S" >>
\* 'Continue from where you left off. Do not repeat earlier content. ...'
ContinueInstruction == << "C" >>
\* generatePrompt(diffOutput, creator)
DescriptionPrompt == << "D" >>
\* generateTitlePrompt(diffOutput, currentTitle)
TitlePrompt == << "T" >>
\* The model names of this model that start with 'gemini-2'.
Gemini2Models == { "gemini-2.5-pro", "gemini-2.5-flash" }
\* name.toLowerCase().startsWith('gemini-2')
supportsSystemInstruction(name) == name \in Gemini2Models
\* !supportsSystemInstruction(modelName) ? `${systemText}\n\n${prompt}` : prompt
UserText(name, p) ==
    IF ~supportsSystemInstruction(name) THEN systemText \o NewLines \o p ELSE p
Turn(role, t) == [role |-> role, text |-> t]
\* payload of the first request
InitialPayload(name, tokens, p) ==
    [kind |-> "initial", maxOutputTokens |-> tokens,
     contents |-> << Turn("user", UserText(name, p)) >>]
\* retryPayload: the same turn, maxOutputTokens bumped
RetryPayload(name, tokens, p) ==
    [kind |-> "bumped", maxOutputTokens |-> Bumped(tokens),
     contents |-> << Turn("user", UserText(name, p)) >>]
\* ContinuationContents without the partial output as a model turn.
ContinuationContentsNoPartial(p, t) ==
    << Turn("user", p), Turn("user", ContinueInstruction) >>
\* contents of contPayload
ContinuationContents(p, t) ==
    << Turn("user", p), Turn("model", t), Turn("user", ContinueInstruction) >>
\* contPayload
ContPayload(tokens, p, t) ==
    [kind |-> "continuation", maxOutputTokens |-> tokens,
     contents |-> ContinuationContents(p, t)]
NoResponse == [finishReason |-> "none", parts |-> << >>]

(***************************************************************************)
(* logUsageDiagnostics.  A count of the usage metadata is a record: a      *)
(* count that is missing, or is not a finite number, is not reported.      *)
(***************************************************************************)
NoCount == [reported |-> FALSE, value |-> 0]
\* usage undefined: every usage?.x is undefined.
NoUsage == [promptTokenCount |-> NoCount, candidatesTokenCount |-> NoCount,
            totalTokenCount |-> NoCount, thoughtsTokenCount |-> NoCount]
\* const num = (n) => (typeof n === 'number' && Number.isFinite(n) ? n : 0)
num(n) == IF n.reported THEN n.value ELSE 0
\* Math.max(0, Math.ceil((text || '').length / 4))
approxVisibleRaw(t) == Max(0, (Len(t) + 3) \div 4)
\* thoughts = thoughtsReported, not held to the output tokens.
ReportedThoughtsUnclamped(thoughtsReported, outputTotal) == thoughtsReported
\* thoughts = Math.min(thoughtsReported, outputTotal)
ReportedThoughts(thoughtsReported, outputTotal) ==
    Min(thoughtsReported, outputTotal)
\* The locals of logUsageDiagnostics from thoughts on. thoughtsRatio is
\* thoughts / denom and visibleRatio, Math.max(0, 1 - thoughtsRatio), is
\* visible / denom.
Diagnosed(candidates, thoughtsReported, outputTotal, visibleApprox, denom) ==
    LET thoughts ==
            IF thoughtsReported > 0
            THEN ReportedThoughts(thoughtsReported, outputTotal)
            ELSE IF candidates > 0
            THEN Max(0, Min(candidates - visibleApprox, outputTotal))
            ELSE Max(0, outputTotal - visibleApprox)
    IN  [logged |-> TRUE, candidates |-> candidates,
         thoughtsReported |-> thoughtsReported, outputTotal |-> outputTotal,
         visibleApprox |-> visibleApprox, thoughts |-> thoughts,
         denom |-> denom, visible |-> Max(0, denom - thoughts)]
\* logUsageDiagnostics(usage, text): the values it logs.
logUsageDiagnostics(u, t) ==
    LET outputTotal == Max(0, num(u.totalTokenCount) - num(u.promptTokenCount))
    IN  Diagnosed(num(u.candidatesTokenCount), num(u.thoughtsTokenCount),
                  outputTotal, Min(approxVisibleRaw(t), outputTotal),
                  Max(1, outputTotal))
NoDiagnostics ==
    [logged |-> FALSE, candidates |-> 0, thoughtsReported |-> 0,
     outputTotal |-> 0, visibleApprox |-> 0, thoughts |-> 0, denom |-> 1,
     visible |-> 1]

(***************************************************************************)
(* Inputs.                                                                 *)
(***************************************************************************)
Impls == { "config", "legacy" }
EnvUnset == [set |-> FALSE, value |-> << >>]
EnvValues ==
    { EnvUnset,
      [set |-> TRUE, value |-> << "a", "b", "c" >>],
      [set |-> TRUE, value |-> << "0" >>],
      [set |-> TRUE, value |-> << "-", "5" >>],
      [set |-> TRUE, value |-> << "1", "0", "0" >>],
      [set |-> TRUE, value |-> << "7", "6", "8" >>],
      [set |-> TRUE, value |-> << "1", "0", "0", "1" >>],
      [set |-> TRUE, value |-> << "2", "0", "0", "0" >>] }
ModelParams ==
    { "", "gemini-2.5-pro", "gemini-2.5-flash", "gemini-1.5-flash", "gemini-exp" }

NoConfig == [model |-> "", maxOutputTokens |-> 0]
NoPayload == [kind |-> "none", maxOutputTokens |-> 0, contents |-> << >>]

\* aiHelperResolver (case 'gemini'): the helper as constructed.
Resolve(i, e, m) ==
    IF i = "config"
    THEN [model |-> ResolveModelName(m), maxOutputTokens |-> ResolverMaxOutputTokens(e)]
    ELSE NoConfig

\* Math.random() in thousandths: 0 <= rnd / 1000 < 1.
Randoms == { 0, 3, 4, 500, 996, 999 }

(***************************************************************************)
(* The inputs of PullRequestUpdater.run.                                   *)
(***************************************************************************)
EventNames == { "pull_request", "pull_request_target", "push" }
\* getInput("update_title"): not given, or one of these texts.
UpdateTitleInputs ==
    { << >>, << "t", "r", "u", "e" >>, << "T", "r", "u", "e" >>,
      << "f", "a", "l", "s", "e" >> }
\* The pull request's number, and bodies pulls.get may return.
PullRequestNumber == 7
Bodies == { << >>, << "o" >> }

\* Error messages.
WrongEventMessage == << "This action should only runs on pull_request events." >>
InvalidEventContext == << "Invalid event context" >>
UnknownError == << "Unknown error" >>
GeminiErrorPrefix == << "Gemini API Error: " >>
GitFetchError == [isError |-> TRUE, message |-> << "git fetch failed" >>]
\* What octokit may throw: a RequestError, or a value that is no Error.
ApiErrors ==
    { [isError |-> TRUE, message |-> << "Not Found" >>],
      [isError |-> FALSE, message |-> << >>] }
NoError == [isError |-> FALSE, message |-> << "none" >>]

\* let generatedTitle: string | undefined
NoTitle == [set |-> FALSE, value |-> << >>]
\* What git and the event payload hand to run(): the diff text, the changed
\* files and the pull request's title.
Repository(d, files, title) ==
    [diffOutput |-> d, changedFiles |-> files, currentTitle |-> title]
DefaultRepository == Repository(<< >>, << << "s", "r", "c", "/", "a", ".", "t", "s" >> >>, << "w", "i", "p" >>)

\* The AIHelperParams the constructor of PullRequestUpdater hands to
\* aiHelperResolver: the model input goes under the key geminiModel, and no
\* key model is given.
ConstructorParams(input) ==
    [geminiModel |-> IF input = "" THEN "gemini-1.5-pro" ELSE input,
     model |-> ""]

InitWith(impls, envs, models, budget, rnds, events, titleInputs, repositories, usages, modelInputs) ==
    /\ geminiModelInput \in modelInputs
    /\ usage \in usages
    /\ usageLog = NoDiagnostics
    /\ impl \in impls
    /\ env \in envs
    /\ modelParam \in models
    /\ config = Resolve(impl, env, modelParam)
    /\ pc = "ready"
    /\ modelName = ""
    /\ initialMaxOutputTokens = 0
    /\ payload = NoPayload
    /\ sentModel = ""
    /\ ordered = << >>
    /\ currentModelIndex = 0
    /\ currentModel = ""
    /\ consecutive503 = 0
    /\ attempt = 0
    /\ calls = 0
    /\ sleeps = 0
    /\ err = NoErr
    /\ retryOutcome = "none"
    /\ servedAttempt = 0
    /\ modelUsed = ""
    /\ text = << >>
    /\ result = << >>
    /\ cause = NoErr
    /\ faultsLeft = budget
    /\ prompt = << >>
    /\ response = NoResponse
    /\ followUp = NoResponse
    /\ sent = << >>
    /\ followUpCalls = 0
    /\ delay = 0
    /\ randoms = rnds
    /\ eventName \in events
    /\ updateTitleInput \in titleInputs
    /\ phase = "start"
    /\ trace = << >>
    /\ failed = << >>
    /\ outputs = << >>
    /\ runError = NoError
    /\ generatedDescription = << >>
    /\ rawTitle = << >>
    /\ currentDescription = << >>
    /\ \E r \in repositories :
           /\ diffOutput = r.diffOutput
           /\ changedFiles = r.changedFiles
           /\ currentTitle = r.currentTitle
    /\ generatedTitle = NoTitle
    /\ comments = << >>
    /\ updateRequests = << >>

Init ==
    InitWith(Impls, EnvValues, ModelParams, MaxFaults, {0},
             {"pull_request"}, {<< >>}, {DefaultRepository}, {NoUsage}, {""})
InitFallback ==
    InitWith(Impls, {EnvUnset}, {"", "gemini-exp"}, MaxFallbackFaults, {0},
             {"pull_request"}, {<< >>}, {DefaultRepository}, {NoUsage}, {""})
InitExhaust ==
    InitWith({"config"}, {EnvUnset}, ModelParams, Unlimited, {0},
             {"pull_request"}, {<< >>}, {DefaultRepository}, {NoUsage}, {""})
InitBackoff ==
    InitWith({"config"}, {EnvUnset}, {""}, Unlimited, Randoms,
             {"pull_request"}, {<< >>}, {DefaultRepository}, {NoUsage}, {""})
InitRun ==
    /\ InitWith(Impls, {EnvUnset}, ModelParams, MaxFaults, {0},
                EventNames, UpdateTitleInputs, {DefaultRepository}, {NoUsage},
                {""})
    /\ modelParam = ConstructorParams(geminiModelInput).model

(***************************************************************************)
(* generateWithRetry                                                       *)
(***************************************************************************)
Spend(n) == IF n = Unlimited THEN Unlimited ELSE n - 1

\* The locals of generateWithRetry are gone once it has returned or thrown.
DropRetryLocals ==
    /\ ordered' = << >>
    /\ currentModelIndex' = 0
    /\ currentModel' = ""
    /\ consecutive503' = 0
    /\ attempt' = 0
    /\ delay' = 0

\* generateWithRetry(p, m) from its entry to its first generateContent call.
EnterRetry(p, m) ==
    /\ payload' = p
    /\ ordered' = Ordered(m)
    /\ currentModelIndex' = 0
    /\ currentModel' = ModelAt(Ordered(m), 0)
    /\ consecutive503' = 0
    /\ attempt' = 1
    /\ \E rnd \in randoms : delay' = Delay(1, rnd)
    /\ calls' = 1
    /\ sleeps' = 0
    /\ err' = NoErr
    /\ retryOutcome' = "pending"
    /\ sentModel' = ModelAt(Ordered(m), 0)
    /\ pc' = "awaiting"

\* createPullRequestDescription(_, p) from its entry to the first provider call.
CreatePullRequestDescription(p) ==
    /\ LET name   == IF impl = "config" THEN config.model
                     ELSE ResolveModelName(modelParam)
           tokens == IF impl = "config" THEN config.maxOutputTokens
                     ELSE LegacyMaxOutputTokens(env)
       IN  /\ modelName' = name
           /\ initialMaxOutputTokens' = tokens
           /\ prompt' = p
           /\ EnterRetry(InitialPayload(name, tokens, p), name)
           /\ sent' = << InitialPayload(name, tokens, p) >>
    /\ response' = NoResponse
    /\ followUp' = NoResponse
    /\ followUpCalls' = 0
    /\ servedAttempt' = 0
    /\ modelUsed' = ""
    /\ text' = << >>
    /\ result' = << >>
    /\ cause' = NoErr
    /\ usageLog' = NoDiagnostics
    /\ UNCHANGED << impl, env, modelParam, config, randoms, faultsLeft, usage >>

\* The text createPullRequestDescription returns after a continuation.
\* text = (text + '\n\n' + more).trim()
Continued(t, more) == Trim(t \o NewLines \o more)

\* The model the follow-up request goes to: ensureModel(modelUsed).
FollowUpModel(used, name) == used

\* The provider answers the call in flight of generateWithRetry: the loop
\* returns { result, modelUsed: currentModel } and createPullRequestDescription
\* goes on to its next provider call or to its return.
ProviderReturns(r) ==
    /\ UNCHANGED driverVars
    /\ pc = "awaiting"
    /\ err' = NoErr
    /\ servedAttempt' = attempt
    /\ modelUsed' = currentModel
    /\ IF payload.kind = "continuation"
       THEN \* legacy: the continuation came back
            /\ followUp' = r
            /\ result' = Continued(text, ResponseText(r))
            /\ pc' = "resolved"
            /\ retryOutcome' = "returned"
            /\ DropRetryLocals
            /\ UNCHANGED << payload, sentModel, calls, sleeps, text, response,
                            sent, followUpCalls, usageLog >>
       ELSE IF impl = "legacy"
       THEN /\ response' = r
            /\ text' = ResponseText(r)
            /\ UNCHANGED << followUp, usageLog >>
            /\ IF IsMaxTokens(r.finishReason)
               THEN /\ EnterRetry(ContPayload(initialMaxOutputTokens, prompt,
                                              ResponseText(r)),
                                  modelName)
                    /\ sent' = Append(sent, ContPayload(initialMaxOutputTokens,
                                                        prompt, ResponseText(r)))
                    /\ followUpCalls' = 1
                    /\ UNCHANGED result
               ELSE /\ result' = ResponseText(r)
                    /\ pc' = "resolved"
                    /\ retryOutcome' = "returned"
                    /\ DropRetryLocals
                    /\ UNCHANGED << payload, sentModel, calls, sleeps, sent,
                                    followUpCalls >>
       ELSE /\ response' = r
            /\ text' = concatCandidatePartsText(r)
            /\ usageLog' = logUsageDiagnostics(usage, concatCandidatePartsText(r))
            /\ retryOutcome' = "returned"
            /\ DropRetryLocals
            /\ UNCHANGED << calls, sleeps, followUp >>
            /\ IF IsMaxTokens(r.finishReason)
               THEN /\ payload' =
                         IF IsBlank(concatCandidatePartsText(r))
                         THEN RetryPayload(modelName, initialMaxOutputTokens, prompt)
                         ELSE ContPayload(initialMaxOutputTokens, prompt,
                                          concatCandidatePartsText(r))
                    /\ sent' = Append(sent, payload')
                    /\ followUpCalls' = 1
                    /\ sentModel' = FollowUpModel(currentModel, modelName)
                    /\ pc' = "awaitingFollowUp"
                    /\ UNCHANGED result
               ELSE /\ result' = concatCandidatePartsText(r)
                    /\ pc' = "resolved"
                    /\ UNCHANGED << payload, sentModel, sent, followUpCalls >>
    /\ UNCHANGED << impl, env, modelParam, config, randoms, usage, modelName,
                    initialMaxOutputTokens, cause, faultsLeft, prompt >>

\* The provider fails the call in flight of generateWithRetry: the catch block.
ProviderThrows(e) ==
    /\ UNCHANGED driverVars
    /\ pc = "awaiting"
    /\ faultsLeft # 0
    /\ faultsLeft' = Spend(faultsLeft)
    /\ err' = e
    /\ LET n      == Count503(e, consecutive503)
           switch == IsRetryable(e)
                     /\ ShouldSwitch(e, n, currentModelIndex, ordered)
           idx    == IF switch THEN NextModelIndex(currentModelIndex)
                     ELSE currentModelIndex
       IN  IF IsRetryable(e) /\ ~LastAttempt(attempt)
           THEN \* await new Promise(r => setTimeout(r, delay)); continue;
                /\ consecutive503' = n
                /\ currentModelIndex' = idx
                /\ currentModel' = IF switch THEN ModelAt(ordered, idx) ELSE currentModel
                /\ sleeps' = sleeps + 1
                /\ pc' = "sleeping"
                /\ UNCHANGED << ordered, attempt, delay, retryOutcome, cause >>
           ELSE \* throw err, caught by createPullRequestDescription
                /\ retryOutcome' = "threw"
                /\ cause' = e
                /\ pc' = "rejected"
                /\ DropRetryLocals
                /\ UNCHANGED sleeps
    /\ UNCHANGED << impl, env, modelParam, config, randoms, usage, usageLog,
                    modelName,
                    initialMaxOutputTokens, payload, sentModel, calls,
                    servedAttempt, modelUsed, text, result, prompt, response,
                    followUp, sent, followUpCalls >>

\* The backoff timer fires: attempt++ and the next iteration's provider call,
\* or the fall out of the loop.
Wake ==
    /\ UNCHANGED driverVars
    /\ pc = "sleeping"
    /\ IF LoopContinues(attempt + 1)
       THEN /\ attempt' = attempt + 1
            /\ \E rnd \in randoms : delay' = Delay(attempt + 1, rnd)
            /\ calls' = calls + 1
            /\ sentModel' = currentModel
            /\ err' = NoErr
            /\ pc' = "awaiting"
            /\ followUpCalls' = IF payload.kind = "initial" THEN followUpCalls
                                ELSE followUpCalls + 1
            /\ UNCHANGED << ordered, currentModelIndex, currentModel,
                            consecutive503, retryOutcome, cause >>
       ELSE \* throw new Error('Exhausted retry attempts ...')
            /\ retryOutcome' = "threw"
            /\ cause' = ExhaustedError
            /\ pc' = "rejected"
            /\ DropRetryLocals
            /\ UNCHANGED << calls, sentModel, err, followUpCalls >>
    /\ UNCHANGED << impl, env, modelParam, config, randoms, usage, usageLog,
                    modelName,
                    initialMaxOutputTokens, payload, sleeps, servedAttempt,
                    modelUsed, text, result, faultsLeft, prompt, response,
                    followUp, sent >>

(***************************************************************************)
(* The follow-up request of the "config" helper, sent with                 *)
(* ensureModel(modelUsed).generateContent, outside generateWithRetry.      *)
(***************************************************************************)
FollowUpReturns(r) ==
    /\ UNCHANGED driverVars
    /\ pc = "awaitingFollowUp"
    /\ result' = IF payload.kind = "bumped"
                 THEN concatCandidatePartsText(r)
                 ELSE Continued(text, concatCandidatePartsText(r))
    /\ followUp' = r
    /\ pc' = "resolved"
    /\ UNCHANGED << impl, env, modelParam, config, randoms, usage, usageLog,
                    modelName,
                    initialMaxOutputTokens, payload, sentModel, ordered,
                    currentModelIndex, currentModel, consecutive503, attempt,
                    delay, calls, sleeps, err, retryOutcome, servedAttempt, modelUsed,
                    text, cause, faultsLeft, prompt, response, sent,
                    followUpCalls >>

FollowUpThrows(e) ==
    /\ UNCHANGED driverVars
    /\ pc = "awaitingFollowUp"
    /\ faultsLeft # 0
    /\ faultsLeft' = Spend(faultsLeft)
    /\ err' = e
    /\ cause' = e
    /\ pc' = "rejected"
    /\ UNCHANGED << impl, env, modelParam, config, randoms, usage, usageLog,
                    modelName,
                    initialMaxOutputTokens, payload, sentModel, ordered,
                    currentModelIndex, currentModel, consecutive503, attempt,
                    delay, calls, sleeps, retryOutcome, servedAttempt, modelUsed,
                    text, result, prompt, response, followUp, sent,
                    followUpCalls >>

(***************************************************************************)
(* The title synthesizer of PullRequestUpdater.  Texts are sequences of    *)
(* characters; a changed-file list is a sequence of paths.                 *)
(***************************************************************************)
\* String.prototype.toLowerCase
LowerCase(s) == [k \in 1..Len(s) |-> ToLowerChar(s[k])]
\* String.prototype.slice(0, n)
SliceTo(s, n) == SubSeq(s, 1, IF n < Len(s) THEN n ELSE Len(s))
StartsWith(s, p) == OccursAt(s, p, 1)
EndsWith(s, p) == OccursAt(s, p, Len(s) - Len(p) + 1)
\* String.prototype.indexOf(c) + 1 (0 when c does not occur)
IndexOf(s, c) ==
    IF \E i \in 1..Len(s) : s[i] = c
    THEN CHOOSE i \in 1..Len(s) : s[i] = c /\ \A j \in 1..(i - 1) : s[j] # c
    ELSE 0

HeadingMarks == { "#" }
\* The backquote is written as the one-character token "backquote".
Quotes == { "backquote", "'", "\"" }
Punctuation == { ".", "!", "?" }
DigitChars == { Digits[i] : i \in 1..Len(Digits) }

\* .replace(/^#+\s*/, '')
StripHeading(s) == TrimStart(DropStart(s, LeadingRun(s, HeadingMarks)))
StripHeadingIfMarked(s) ==
    IF s # << >> /\ Head(s) \in HeadingMarks THEN StripHeading(s) ELSE s
\* .replace(/^[`'"]+|[`'"]+$/g, '')
StripQuotes(s) ==
    LET t == DropStart(s, LeadingRun(s, Quotes))
    IN  DropEnd(t, TrailingRun(t, Quotes))
\* .replace(/\s+/g, ' '): the first character of every white-space run is
\* kept, as one space.
CollapseSpaces(s) ==
    LET marked == [k \in 1..Len(s) |->
                      [c     |-> IF IsSpace(s[k]) THEN " " ELSE s[k],
                       first |-> ~IsSpace(s[k]) \/ k = 1 \/ ~IsSpace(s[k - 1])]]
        kept   == SelectSeq(marked, LAMBDA m : m.first)
    IN  [k \in 1..Len(kept) |-> kept[k].c]
\* .replace(/[\.!?]+$/g, '')
StripPunctuation(s) == DropEnd(s, TrailingRun(s, Punctuation))

\* The hard cap of sanitizeTitle.
TitleCap == 72
sanitizeTitle(title) ==
    LET cleaned == StripPunctuation(CollapseSpaces(Trim(StripQuotes(
                       StripHeadingIfMarked(title)))))
    IN  IF Len(cleaned) > TitleCap THEN Trim(SliceTo(cleaned, TitleCap)) ELSE cleaned

\* The ten types, in the order of the scores object of inferCommitTypeScored.
CommitTypes ==
    << << "f", "e", "a", "t" >>, << "f", "i", "x" >>, << "d", "o", "c", "s" >>,
       << "s", "t", "y", "l", "e" >>, << "r", "e", "f", "a", "c", "t", "o", "r" >>,
       << "p", "e", "r", "f" >>, << "t", "e", "s", "t" >>, << "b", "u", "i", "l", "d" >>,
       << "c", "i" >>, << "c", "h", "o", "r", "e" >> >>
\* { subject: title.trim() }: the title carries no conventional-commit prefix.
Unparsed(title) == [type |-> << >>, scope |-> << >>, subject |-> Trim(title)]
\* /^(feat|...|chore)(?:\(([^)]+)\))?:\s*(.+)$/i: an absent type or scope is
\* the empty text (both are tested for truthiness only).
parseConventionalCommit(title) ==
    LET lower == LowerCase(title)
        ks    == { k \in 1..Len(CommitTypes) : StartsWith(lower, CommitTypes[k]) }
    IN  IF ks = {} THEN Unparsed(title)
        ELSE LET type    == CommitTypes[CHOOSE k \in ks : TRUE]
                 rest    == DropStart(title, Len(type))
                 close   == IndexOf(rest, ")")
                 scoped  == /\ rest # << >>
                            /\ Head(rest) = "("
                            /\ close > 2
                            /\ close < Len(rest)
                            /\ rest[close + 1] = ":"
                 colon   == scoped \/ (rest # << >> /\ Head(rest) = ":")
                 after   == DropStart(rest, IF scoped THEN close + 1 ELSE 1)
                 ws      == LeadingRun(after, Spaces)
                 \* how many white-space characters \s* may take so that (.+)
                 \* still matches one or more characters, none a line break
                 starts  == { k \in 0..ws :
                                /\ k < Len(after)
                                /\ \A j \in (k + 1)..Len(after) : after[j] # "\n" }
                 taken   == CHOOSE k \in starts : \A j \in starts : j <= k
             IN  IF colon /\ starts # {}
                 THEN [type    |-> type,
                       scope   |-> IF scoped THEN SubSeq(rest, 2, close - 1) ELSE << >>,
                       subject |-> Trim(DropStart(after, taken))]
                 ELSE Unparsed(title)

RECURSIVE Split(_, _)
\* String.prototype.split(sep)
Split(s, sep) ==
    LET i == IndexOf(s, sep)
    IN  IF i = 0 THEN << s >>
        ELSE << SubSeq(s, 1, i - 1) >> \o Split(DropStart(s, i), sep)
\* f.split('/').filter(Boolean)
PathParts(f) == SelectSeq(Split(f, "/"), LAMBDA p : p # << >>)

TopLevelAreas ==
    { << "b", "a", "c", "k", "e", "n", "d" >>, << "f", "r", "o", "n", "t", "e", "n", "d" >>, << "s", "e", "r", "v", "e", "r" >>, << "c", "l", "i", "e", "n", "t" >>, << "a", "p", "i" >>, << "w", "e", "b" >>, << "a", "p", "p" >> }
\* The group a changed file is counted in; the empty text when bump is
\* handed undefined and counts nothing.
ScopeKey(f) ==
    LET parts == PathParts(f)
    IN  IF parts = << >> THEN << >>
        ELSE IF parts[1] = << ".", "g", "i", "t", "h", "u", "b" >> THEN << "c", "i" >>
        ELSE IF Len(parts) = 1 THEN << "r", "o", "o", "t" >>
        ELSE IF parts[1] = << "a", "p", "p", "s" >> THEN parts[2]
        ELSE IF parts[1] = << "p", "a", "c", "k", "a", "g", "e", "s" >> THEN parts[2]
        ELSE IF parts[1] \in TopLevelAreas THEN parts[1]
        ELSE IF parts[1] = << "s", "r", "c" >> THEN parts[2]
        ELSE parts[1]
\* bump(k): candidates[k] = (candidates[k] || 0) + 1, keys in insertion order
\* (no key of the modelled inputs is an array index).
bump(candidates, k) ==
    IF k = << >> THEN candidates
    ELSE IF \E i \in 1..Len(candidates) : candidates[i].key = k
    THEN [i \in 1..Len(candidates) |->
             IF candidates[i].key = k
             THEN [key |-> k, count |-> candidates[i].count + 1]
             ELSE candidates[i]]
    ELSE Append(candidates, [key |-> k, count |-> 1])
RECURSIVE Candidates(_)
\* for (const f of files) { ... bump(...) ... }
Candidates(files) ==
    IF files = << >> THEN << >>
    ELSE bump(Candidates(SubSeq(files, 1, Len(files) - 1)), ScopeKey(files[Len(files)]))
\* for (const [k, v] of Object.entries(candidates)) if (v > bestCount) ...:
\* the index of the first candidate with the greatest count.
BestCandidate(candidates) ==
    CHOOSE i \in 1..Len(candidates) :
        /\ \A j \in 1..Len(candidates) : candidates[j].count <= candidates[i].count
        /\ \A j \in 1..(i - 1) : candidates[j].count < candidates[i].count
\* /(^|\/)name(\/|$)/.test(f)
HasSegment(f, name) == \E i \in 1..Len(Split(f, "/")) : Split(f, "/")[i] = name
\* /(^|\/)name$/.test(f)
IsNamed(f, name) == Split(f, "/")[Len(Split(f, "/"))] = name
hasApps(f) == StartsWith(f, << "a", "p", "p", "s", "/" >>)
\* /^package\//.test(f): the directory name without its s.
hasPackage(f) == StartsWith(f, << "p", "a", "c", "k", "a", "g", "e", "/" >>)
hasPackages(f) == StartsWith(f, << "p", "a", "c", "k", "a", "g", "e", "s", "/" >>)
hasBackend(f) == HasSegment(f, << "b", "a", "c", "k", "e", "n", "d" >>)
hasFrontend(f) == HasSegment(f, << "f", "r", "o", "n", "t", "e", "n", "d" >>)
hasMonorepoFiles(f) ==
    \/ IsNamed(f, << "p", "n", "p", "m", "-", "w", "o", "r", "k", "s", "p", "a", "c", "e", ".", "y", "m", "l" >>)
    \/ IsNamed(f, << "p", "n", "p", "m", "-", "w", "o", "r", "k", "s", "p", "a", "c", "e", ".", "y", "a", "m", "l" >>)
    \/ IsNamed(f, << "t", "u", "r", "b", "o", ".", "j", "s", "o", "n" >>)
\* chooseScopeFromFilesWithMonorepo(files); the empty text stands for undefined.
chooseScopeFromFilesWithMonorepo(files) ==
    IF files = << >> \/ Candidates(files) = << >> THEN << >>
    ELSE LET candidates == Candidates(files)
             best       == candidates[BestCandidate(candidates)]
             manyAreas  == \/ Len(candidates) > 3
                           \/ (\E i \in DOMAIN files : hasApps(files[i])) /\ (\E i \in DOMAIN files : hasPackages(files[i]))
                           \/ (\E i \in DOMAIN files : hasBackend(files[i])) /\ (\E i \in DOMAIN files : hasFrontend(files[i]))
         IN  IF \/ 2 * best.count < Len(files)
                \/ manyAreas
                \/ (\E i \in DOMAIN files : hasMonorepoFiles(files[i]))
             THEN << "m", "o", "n", "o", "r", "e", "p", "o" >>
             ELSE IF best.key = << "r", "o", "o", "t" >> THEN << "r", "e", "p", "o" >>
             ELSE best.key

\* const lemmas: Record<string, string> = { ... }: << form, base >>
lemmas ==
    { << << "a", "d", "d", "s" >>, << "a", "d", "d" >> >>, << << "a", "d", "d", "e", "d" >>, << "a", "d", "d" >> >>, << << "a", "d", "d", "i", "n", "g" >>, << "a", "d", "d" >> >>,
      << << "f", "i", "x", "e", "s" >>, << "f", "i", "x" >> >>, << << "f", "i", "x", "e", "d" >>, << "f", "i", "x" >> >>, << << "f", "i", "x", "i", "n", "g" >>, << "f", "i", "x" >> >>,
      << << "u", "p", "d", "a", "t", "e", "s" >>, << "u", "p", "d", "a", "t", "e" >> >>, << << "u", "p", "d", "a", "t", "e", "d" >>, << "u", "p", "d", "a", "t", "e" >> >>,
      << << "u", "p", "d", "a", "t", "i", "n", "g" >>, << "u", "p", "d", "a", "t", "e" >> >>,
      << << "r", "e", "m", "o", "v", "e", "s" >>, << "r", "e", "m", "o", "v", "e" >> >>, << << "r", "e", "m", "o", "v", "e", "d" >>, << "r", "e", "m", "o", "v", "e" >> >>,
      << << "r", "e", "m", "o", "v", "i", "n", "g" >>, << "r", "e", "m", "o", "v", "e" >> >>,
      << << "i", "m", "p", "r", "o", "v", "e", "s" >>, << "i", "m", "p", "r", "o", "v", "e" >> >>, << << "i", "m", "p", "r", "o", "v", "e", "d" >>, << "i", "m", "p", "r", "o", "v", "e" >> >>,
      << << "i", "m", "p", "r", "o", "v", "i", "n", "g" >>, << "i", "m", "p", "r", "o", "v", "e" >> >>,
      << << "i", "n", "t", "r", "o", "d", "u", "c", "e", "s" >>, << "i", "n", "t", "r", "o", "d", "u", "c", "e" >> >>, << << "i", "n", "t", "r", "o", "d", "u", "c", "e", "d" >>, << "i", "n", "t", "r", "o", "d", "u", "c", "e" >> >>,
      << << "i", "n", "t", "r", "o", "d", "u", "c", "i", "n", "g" >>, << "i", "n", "t", "r", "o", "d", "u", "c", "e" >> >>,
      << << "r", "e", "f", "a", "c", "t", "o", "r", "s" >>, << "r", "e", "f", "a", "c", "t", "o", "r" >> >>, << << "r", "e", "f", "a", "c", "t", "o", "r", "e", "d" >>, << "r", "e", "f", "a", "c", "t", "o", "r" >> >>,
      << << "r", "e", "f", "a", "c", "t", "o", "r", "i", "n", "g" >>, << "r", "e", "f", "a", "c", "t", "o", "r" >> >>,
      << << "m", "i", "g", "r", "a", "t", "e", "s" >>, << "m", "i", "g", "r", "a", "t", "e" >> >>, << << "m", "i", "g", "r", "a", "t", "e", "d" >>, << "m", "i", "g", "r", "a", "t", "e" >> >>,
      << << "m", "i", "g", "r", "a", "t", "i", "n", "g" >>, << "m", "i", "g", "r", "a", "t", "e" >> >>,
      << << "r", "e", "n", "a", "m", "e", "s" >>, << "r", "e", "n", "a", "m", "e" >> >>, << << "r", "e", "n", "a", "m", "e", "d" >>, << "r", "e", "n", "a", "m", "e" >> >>,
      << << "r", "e", "n", "a", "m", "i", "n", "g" >>, << "r", "e", "n", "a", "m", "e" >> >>,
      << << "o", "p", "t", "i", "m", "i", "z", "e", "s" >>, << "o", "p", "t", "i", "m", "i", "z", "e" >> >>, << << "o", "p", "t", "i", "m", "i", "z", "e", "d" >>, << "o", "p", "t", "i", "m", "i", "z", "e" >> >>,
      << << "o", "p", "t", "i", "m", "i", "z", "i", "n", "g" >>, << "o", "p", "t", "i", "m", "i", "z", "e" >> >>,
      << << "u", "s", "e", "s" >>, << "u", "s", "e" >> >>, << << "u", "s", "e", "d" >>, << "u", "s", "e" >> >>, << << "u", "s", "i", "n", "g" >>, << "u", "s", "e" >> >>,
      << << "e", "n", "s", "u", "r", "e", "s" >>, << "e", "n", "s", "u", "r", "e" >> >>, << << "e", "n", "s", "u", "r", "e", "d" >>, << "e", "n", "s", "u", "r", "e" >> >>,
      << << "e", "n", "s", "u", "r", "i", "n", "g" >>, << "e", "n", "s", "u", "r", "e" >> >> }
InLemmas(lower) == \E p \in lemmas : p[1] = lower
\* lemmas[lower] || lower
Base(lower) ==
    IF InLemmas(lower) THEN (CHOOSE p \in lemmas : p[1] = lower)[2] ELSE lower
\* [\w'-]
IsWordPart(c) == IsWordChar(c) \/ c \in { "'", "-" }
\* Where /(^|:\s*|\()([A-Za-z][\w'-]*)/ can match with the match starting at i:
\* the position of the word's first letter, or 0.
WordStartAt(s, i) ==
    IF i = 1 /\ IsLetter(s[1]) THEN 1
    ELSE IF s[i] = ":"
    THEN LET w == i + 1 + LeadingRun(DropStart(s, i), Spaces)
         IN  IF w <= Len(s) /\ IsLetter(s[w]) THEN w ELSE 0
    ELSE IF s[i] = "(" /\ i < Len(s) /\ IsLetter(s[i + 1]) THEN i + 1
    ELSE 0
\* toImperative(subject)
toImperative(subject) ==
    IF subject = << >> THEN subject
    ELSE LET s  == StripPunctuation(CollapseSpaces(Trim(subject)))
             ms == { i \in 1..Len(s) : WordStartAt(s, i) # 0 }
         IN  IF ms = {} THEN s
             ELSE LET index    == CHOOSE i \in ms : \A j \in ms : i <= j
                      startIdx == WordStartAt(s, index)
                      length   == LeadingRun(DropStart(s, startIdx - 1),
                                             { c \in { s[k] : k \in 1..Len(s) } :
                                                   IsWordPart(c) })
                      word     == SubSeq(s, startIdx, startIdx + length - 1)
                  IN  SubSeq(s, 1, startIdx - 1) \o Base(LowerCase(word))
                      \o DropStart(s, startIdx + length - 1)

\* The file predicates of inferCommitTypeScored (all with the /i flag).
isDocsFile(f) ==
    LET l == LowerCase(f)
    IN  \/ StartsWith(l, << "d", "o", "c", "s", "/" >>)
        \/ EndsWith(l, << ".", "m", "d" >>)
        \/ \E i \in 1..Len(l) :
               /\ OccursAt(l, << "r", "e", "a", "d", "m", "e", "." >>, i)
               /\ \A j \in (i + 7)..Len(l) : l[j] # "/"
isTestFile(f) ==
    LET l == LowerCase(f)
    IN  \/ Contains(l, << ".", "t", "e", "s", "t", "." >>)
        \/ Contains(l, << ".", "s", "p", "e", "c", "." >>)
        \/ Contains(l, << "_", "_", "t", "e", "s", "t", "s", "_", "_", "/" >>)
        \/ StartsWith(l, << "t", "e", "s", "t", "s", "/" >>)
isCiFile(f) ==
    LET l == LowerCase(f)
    IN  \/ StartsWith(l, << ".", "g", "i", "t", "h", "u", "b", "/" >>)
        \/ StartsWith(l, << ".", "c", "i", "r", "c", "l", "e", "c", "i", "/" >>)
        \/ EndsWith(l, << "g", "i", "t", "l", "a", "b", "-", "c", "i", ".", "y", "m", "l" >>)
        \/ EndsWith(l, << "a", "z", "u", "r", "e", "-", "p", "i", "p", "e", "l", "i", "n", "e", "s", ".", "y", "m", "l" >>)
isBuildFile(f) ==
    LET l == LowerCase(f)
    IN  \/ l \in { << "d", "o", "c", "k", "e", "r", "f", "i", "l", "e" >>, << "t", "u", "r", "b", "o", ".", "j", "s", "o", "n" >>, << "p", "n", "p", "m", "-", "w", "o", "r", "k", "s", "p", "a", "c", "e", ".", "y", "m", "l" >>,
                   << "p", "n", "p", "m", "-", "w", "o", "r", "k", "s", "p", "a", "c", "e", ".", "y", "a", "m", "l" >>, << "p", "a", "c", "k", "a", "g", "e", ".", "j", "s", "o", "n" >>, << "t", "s", "c", "o", "n", "f", "i", "g", ".", "j", "s", "o", "n" >>,
                   << "m", "a", "k", "e", "f", "i", "l", "e" >> }
        \/ Contains(l, << "d", "o", "c", "k", "e", "r", "-", "c", "o", "m", "p", "o", "s", "e" >>)
        \/ StartsWith(l, << "v", "i", "t", "e", ".", "c", "o", "n", "f", "i", "g" >>)
        \/ StartsWith(l, << "w", "e", "b", "p", "a", "c", "k", ".", "c", "o", "n", "f", "i", "g" >>)
        \/ StartsWith(l, << "r", "o", "l", "l", "u", "p", ".", "c", "o", "n", "f", "i", "g" >>)
        \/ Contains(l, << "b", "a", "b", "e", "l" >>)
isStyleFile(f) ==
    LET l == LowerCase(f)
    IN  \E ext \in { << ".", "c", "s", "s" >>, << ".", "s", "c", "s", "s" >>, << ".", "s", "a", "s", "s" >>, << ".", "l", "e", "s", "s" >> } : EndsWith(l, ext)
isCodeFile(f) ==
    LET l == LowerCase(f)
    IN  \E ext \in { << ".", "t", "s" >>, << ".", "t", "s", "x" >>, << ".", "j", "s" >>, << ".", "j", "s", "x" >>, << ".", "p", "y" >>, << ".", "g", "o" >>,
                     << ".", "r", "b" >>, << ".", "r", "s" >>, << ".", "j", "a", "v", "a" >>, << ".", "p", "h", "p" >> } : EndsWith(l, ext)

\* /\b(w1|w2|...)\b/.test(s)
ContainsAnyWord(s, words) == \E w \in words : ContainsWord(s, w)
\* /\brefactor(ing|ed|s)?\b|\bcleanup\b|\brestructure\b|\brename\b/
RefactorWords ==
    { << "r", "e", "f", "a", "c", "t", "o", "r" >>, << "r", "e", "f", "a", "c", "t", "o", "r", "i", "n", "g" >>, << "r", "e", "f", "a", "c", "t", "o", "r", "e", "d" >>, << "r", "e", "f", "a", "c", "t", "o", "r", "s" >>, << "c", "l", "e", "a", "n", "u", "p" >>,
      << "r", "e", "s", "t", "r", "u", "c", "t", "u", "r", "e" >>, << "r", "e", "n", "a", "m", "e" >> }
\* /\bperf(ormance)?\b|\boptimi[sz]e\b|\bfaster\b|\bspeed\b/
PerfWords ==
    { << "p", "e", "r", "f" >>, << "p", "e", "r", "f", "o", "r", "m", "a", "n", "c", "e" >>, << "o", "p", "t", "i", "m", "i", "s", "e" >>, << "o", "p", "t", "i", "m", "i", "z", "e" >>, << "f", "a", "s", "t", "e", "r" >>, << "s", "p", "e", "e", "d" >> }
\* /\bfix(e[sd]|ing)?\b|\bbug\b|\berror\b|\bissue\b|\bcorrect\b/
FixWords ==
    { << "f", "i", "x" >>, << "f", "i", "x", "e", "s" >>, << "f", "i", "x", "e", "d" >>, << "f", "i", "x", "i", "n", "g" >>, << "b", "u", "g" >>, << "e", "r", "r", "o", "r" >>, << "i", "s", "s", "u", "e" >>,
      << "c", "o", "r", "r", "e", "c", "t" >> }
\* /\bcreate mode\b|\bnew file mode\b/g
AddedFileMarks == { << "c", "r", "e", "a", "t", "e", " ", "m", "o", "d", "e" >>, << "n", "e", "w", " ", "f", "i", "l", "e", " ", "m", "o", "d", "e" >> }
\* pat occurs in s at i between two word boundaries.
WordAt(s, pat, i) ==
    /\ OccursAt(s, pat, i)
    /\ (i = 1 \/ ~IsWordChar(s[i - 1]))
    /\ (i + Len(pat) > Len(s) \/ ~IsWordChar(s[i + Len(pat)]))
\* (d.match(/.../g) || []).length: the matches of the two marks cannot overlap
CountMarks(d) ==
    Cardinality({ i \in 1..Len(d) : \E m \in AddedFileMarks : WordAt(d, m, i) })
addedFileSignals(diff) == CountMarks(LowerCase(diff))
\* d + ' ' + t
SignalText(diff, current, subject) ==
    LowerCase(diff) \o << " " >> \o LowerCase(current \o << " " >> \o subject)
monorepoSignals(diff, files, current, subject) ==
    LET dt == SignalText(diff, current, subject)
    IN  \/ Contains(dt, << "t", "u", "r", "b", "o", ".", "j", "s", "o", "n" >>)
        \/ Contains(dt, << "p", "n", "p", "m", "-", "w", "o", "r", "k", "s", "p", "a", "c", "e", ".", "y", "m", "l" >>)
        \/ Contains(dt, << "p", "n", "p", "m", "-", "w", "o", "r", "k", "s", "p", "a", "c", "e", ".", "y", "a", "m", "l" >>)
        \/ ContainsAnyWord(dt, { << "m", "o", "n", "o", "r", "e", "p", "o" >>, << "t", "u", "r", "b", "o" >> })
        \/ (\E i \in DOMAIN files : hasMonorepoFiles(files[i]))
        \/ (\E i \in DOMAIN files : hasApps(files[i]))
fixStrong(diff, current, subject) ==
    ContainsAnyWord(SignalText(diff, current, subject), FixWords)

\* Positions of CommitTypes.
Feat == 1
Fix == 2
Docs == 3
Style == 4
Refactor == 5
Perf == 6
Test == 7
Build == 8
Ci == 9
Chore == 10
\* The scores object after every add(...), indexed as CommitTypes.
scores(diff, files, current, subject) ==
    LET dt   == SignalText(diff, current, subject)
        code == (\E i \in DOMAIN files : isCodeFile(files[i]))
        mono == monorepoSignals(diff, files, current, subject)
        B(cond, n) == IF cond THEN n ELSE 0
    IN  [k \in 1..Len(CommitTypes) |->
            CASE k = Feat -> B(code, 2) + B(mono, 3)
                             + B(addedFileSignals(diff) >= 3, 2)
              [] k = Fix -> B(fixStrong(diff, current, subject), 2)
              [] k = Docs -> B((\E i \in DOMAIN files : isDocsFile(files[i])), 2)
              [] k = Style -> B((\E i \in DOMAIN files : isStyleFile(files[i])), 2)
              [] k = Refactor -> B(ContainsAnyWord(dt, RefactorWords), 2)
              [] k = Perf -> B(ContainsAnyWord(dt, PerfWords), 2)
              [] k = Test -> B((\E i \in DOMAIN files : isTestFile(files[i])), 2)
              [] k = Build -> B((\E i \in DOMAIN files : isBuildFile(files[i])), IF code THEN 2 ELSE 3)
                              + B(mono, 2)
              [] k = Ci -> B((\E i \in DOMAIN files : isCiFile(files[i])), IF code THEN 1 ELSE 3)
              [] OTHER -> 0]
\* bestScore = -Infinity: below every score.
MinusInfinity == 0 - 1
\* if (v >= bestScore): the last of the greatest scores wins.
ExceedsOrTies(v, bestScore) == v >= bestScore
\* if (v > bestScore)
Exceeds(v, bestScore) == v > bestScore
RECURSIVE SelectBest(_, _, _, _)
\* for (const [k, v] of Object.entries(scores)) if (v > bestScore) { ... }
SelectBest(sc, k, bestType, bestScore) ==
    IF k > Len(sc) THEN bestType
    ELSE IF Exceeds(sc[k], bestScore) THEN SelectBest(sc, k + 1, k, sc[k])
    ELSE SelectBest(sc, k + 1, bestType, bestScore)
\* inferCommitTypeScored(diffOutput, files, currentTitle, subject): the
\* position of the type it returns.
InferredType(diff, files, current, subject) ==
    LET sc       == scores(diff, files, current, subject)
        bestType == SelectBest(sc, 1, Chore, MinusInfinity)
    IN  IF /\ bestType = Fix
           /\ \/ monorepoSignals(diff, files, current, subject)
              \/ addedFileSignals(diff) >= 3
              \/ sc[Feat] >= sc[Fix] - 1
        THEN Feat
        ELSE IF bestType = Chore /\ (\E i \in DOMAIN files : isCodeFile(files[i])) THEN Feat
        ELSE bestType
inferCommitTypeScored(diff, files, current, subject) ==
    CommitTypes[InferredType(diff, files, current, subject)]

\* bareSubject.replace(/\s*#\d+\s*$/g, '')
StripIssueReference(s) ==
    LET a  == TrimEnd(s)
        nd == TrailingRun(a, DigitChars)
    IN  IF nd >= 1 /\ Len(a) > nd /\ a[Len(a) - nd] = "#"
        THEN TrimEnd(SubSeq(a, 1, Len(a) - nd - 1))
        ELSE s
maxLen == 72
\* `${type}${scope ? `(${scope})` : ''}: `
Prefix(type, scope) ==
    type \o (IF scope # << >> THEN << "(" >> \o scope \o << ")" >> ELSE << >>)
         \o << ":", " " >>
\* Math.max(0, maxLen - prefix.length)
allowedSubjectLen(prefix) == Max(0, maxLen - Len(prefix))
\* formatConventionalCommitTitle from the prefix on: the subject is cut to
\* what the prefix leaves of maxLen, and the locals at the return.
Titled(type, scope, prefix, bareSubject) ==
    LET finalSubject ==
            StripPunctuation(IF Len(bareSubject) > allowedSubjectLen(prefix)
                             THEN Trim(SliceTo(bareSubject, allowedSubjectLen(prefix)))
                             ELSE bareSubject)
    IN  [type |-> type, scope |-> scope, prefix |-> prefix,
         bareSubject |-> bareSubject, finalSubject |-> finalSubject,
         finalTitle |-> prefix \o finalSubject]
\* TypeOrInferred always taking the diff classifier's result.
TypeAlwaysInferred(parsedType, inferred) == inferred
\* let type = parsed.type; if (!type) type = this.inferCommitTypeScored(...)
TypeOrInferred(parsedType, inferred) ==
    IF parsedType # << >> THEN parsedType ELSE inferred
\* let scope = parsed.scope; if (!scope) scope = this.chooseScope...(files)
ScopeOrInferred(parsedScope, inferred) ==
    IF parsedScope # << >> THEN parsedScope ELSE inferred
\* formatConventionalCommitTitle once the title is parsed: a type or scope
\* the title does not carry is inferred, the subject is put in the imperative.
FormatParsed(parsed, subject, diff, files, current) ==
    Titled(TypeOrInferred(parsed.type,
                          inferCommitTypeScored(diff, files, current, subject)),
           ScopeOrInferred(parsed.scope, chooseScopeFromFilesWithMonorepo(files)),
           Prefix(TypeOrInferred(parsed.type,
                                 inferCommitTypeScored(diff, files, current, subject)),
                  ScopeOrInferred(parsed.scope,
                                  chooseScopeFromFilesWithMonorepo(files))),
           toImperative(Trim(StripIssueReference(
               IF parsed.type # << >> THEN parsed.subject ELSE subject))))
\* The locals of formatConventionalCommitTitle at its return.
Formatted(subject, diff, files, current) ==
    FormatParsed(parseConventionalCommit(subject), subject, diff, files, current)
formatConventionalCommitTitle(subject, diff, files, current) ==
    Formatted(subject, diff, files, current).finalTitle

(***************************************************************************)
(* PullRequestUpdater.run: each action runs from one await to the next.    *)
(***************************************************************************)
\* (getInput("update_title") || '').toLowerCase() !== 'false'
UpdateTitleUnlessFalse(input) ==
    [k \in 1..Len(input) |-> ToLowerChar(input[k])] # << "f", "a", "l", "s", "e" >>
\* (getInput("update_title") || '').toLowerCase() === 'true'
UpdateTitle(input) ==
    [k \in 1..Len(input) |-> ToLowerChar(input[k])] = << "t", "r", "u", "e" >>
\* IsPullRequestEvent accepting every event that carries a pull request.
IsPullRequestEventLoose(e) == e # "push"
\* this.context.eventName !== "pull_request" (negated)
IsPullRequestEvent(e) == e = "pull_request"
\* ErrorMessage reporting "Unknown error" for every error.
ErrorMessageUnknown(error) == UnknownError
\* error instanceof Error ? error.message : "Unknown error"
ErrorMessage(error) == IF error.isError THEN error.message ELSE UnknownError
\* throw new Error(`Gemini API Error: ${(error as Error).message}`)
GeminiError(e) == [isError |-> TRUE, message |-> GeminiErrorPrefix \o e.msg]

RECURSIVE NumberToString(_)
\* Number.prototype.toString of a non-negative integer
NumberToString(n) ==
    IF n < 10 THEN << Digits[n + 1] >>
    ELSE NumberToString(n \div 10) \o << Digits[(n % 10) + 1] >>

\* The catch block of run().
Catch(error, alreadyFailed) ==
    /\ runError' = error
    /\ failed' = Append(alreadyFailed, ErrorMessage(error))
    /\ phase' = "done"

\* NextAfterDescription going straight to publishing.
NextAfterDescriptionSkipTitle(updateTitle) == "get"
\* if (this.updateTitle) { ... title generation ... }: what run() awaits next
NextAfterDescription(updateTitle) == IF updateTitle THEN "title" ELSE "get"

\* run() from its entry to its first await (fetchGitBranches), or to its end
\* when the event context is not valid.
Run ==
    /\ phase = "start"
    /\ IF IsPullRequestEvent(eventName)
       THEN /\ phase' = "fetching"
            /\ trace' = Append(trace, "git fetch")
            /\ UNCHANGED << failed, runError >>
       ELSE \* validateEventContext: setFailed(...); throw new Error(...)
            /\ Catch([isError |-> TRUE, message |-> InvalidEventContext],
                     Append(failed, WrongEventMessage))
            /\ UNCHANGED trace
    /\ UNCHANGED << eventName, updateTitleInput, geminiModelInput, outputs, generatedDescription,
                    rawTitle, currentDescription, diffOutput, changedFiles,
                    currentTitle, generatedTitle, comments, updateRequests >>
    /\ UNCHANGED helperVars

\* fetchGitBranches settles: the diff is read and the description requested.
GitFetchSettles(ok) ==
    /\ phase = "fetching"
    /\ pc = "ready"
    /\ IF ok
       THEN /\ phase' = "description"
            /\ trace' = Append(trace, "description:start")
            /\ CreatePullRequestDescription(DescriptionPrompt)
            /\ UNCHANGED << failed, runError >>
       ELSE /\ Catch(GitFetchError, failed)
            /\ UNCHANGED trace
            /\ UNCHANGED helperVars
    /\ UNCHANGED << eventName, updateTitleInput, geminiModelInput, outputs, generatedDescription,
                    rawTitle, currentDescription, diffOutput, changedFiles,
                    currentTitle, generatedTitle, comments, updateRequests >>

\* The call of createPullRequestDescription is over and its locals are gone.
ReleaseCall ==
    /\ pc' = "ready"
    /\ modelName' = ""
    /\ initialMaxOutputTokens' = 0
    /\ payload' = NoPayload
    /\ sentModel' = ""
    /\ DropRetryLocals
    /\ calls' = 0
    /\ sleeps' = 0
    /\ err' = NoErr
    /\ retryOutcome' = "none"
    /\ servedAttempt' = 0
    /\ modelUsed' = ""
    /\ text' = << >>
    /\ result' = << >>
    /\ cause' = NoErr
    /\ prompt' = << >>
    /\ response' = NoResponse
    /\ followUp' = NoResponse
    /\ sent' = << >>
    /\ followUpCalls' = 0
    /\ usageLog' = NoDiagnostics
    /\ UNCHANGED << impl, env, modelParam, config, randoms, faultsLeft, usage >>

\* The awaited promise taken for fulfilled whatever happened.
GenerationFailedNever(position) == FALSE
\* await this.aiHelper.createPullRequestDescription(...) throws into the
\* catch block of run(): the promise was rejected.
GenerationFailed(position) == position = "rejected"

\* The promise of createPullRequestDescription has settled and run() resumes:
\* after the description with the title generation or the publication, after
\* the title with the publication, after a rejection in its catch block.
GenerationSettles ==
    /\ phase \in { "description", "title" }
    /\ pc \in { "resolved", "rejected" }
    /\ IF GenerationFailed(pc)
       THEN /\ Catch(GeminiError(cause), failed)
            /\ UNCHANGED << trace, generatedDescription, rawTitle, generatedTitle >>
            /\ UNCHANGED helperVars
       ELSE IF phase = "description"
               /\ NextAfterDescription(UpdateTitle(updateTitleInput)) = "title"
       THEN /\ generatedDescription' = result
            /\ phase' = "title"
            /\ trace' = trace \o << "description:end", "title:start" >>
            /\ CreatePullRequestDescription(TitlePrompt)
            /\ UNCHANGED << failed, runError, rawTitle, generatedTitle >>
       ELSE /\ IF phase = "description"
               THEN /\ generatedDescription' = result
                    /\ UNCHANGED << rawTitle, generatedTitle >>
               ELSE /\ rawTitle' = result
                    /\ generatedTitle' =
                           [set   |-> TRUE,
                            value |-> formatConventionalCommitTitle(
                                          sanitizeTitle(result), diffOutput,
                                          changedFiles, currentTitle)]
                    /\ UNCHANGED generatedDescription
            /\ phase' = "get"
            /\ trace' = trace \o << IF phase = "description"
                                     THEN "description:end" ELSE "title:end",
                                     "pulls.get" >>
            /\ UNCHANGED << failed, runError >>
            /\ ReleaseCall
    /\ UNCHANGED << eventName, updateTitleInput, geminiModelInput, outputs, currentDescription,
                    diffOutput, changedFiles, currentTitle, comments,
                    updateRequests >>

\* NeedsBackup asking for no backup at all.
NeedsBackupNever(currentDescriptionText) == FALSE
\* if (currentDescription)
NeedsBackup(currentDescriptionText) == currentDescriptionText # << >>
\* body: `**Original description**:\n\n${currentDescription}`
OriginalDescriptionPrefix == << "**Original description**:", "\n", "\n" >>
OriginalDescriptionComment(currentDescriptionText) ==
    OriginalDescriptionPrefix \o currentDescriptionText
\* params of applyPullRequestUpdate: the body, and the title when
\* newTitle && newTitle.length > 0
UpdateParams(newDescription, newTitle) ==
    IF newTitle.set /\ Len(newTitle.value) > 0
    THEN [body |-> newDescription, hasTitle |-> TRUE, title |-> newTitle.value]
    ELSE [body |-> newDescription, hasTitle |-> FALSE, title |-> << >>]

\* pulls.get settles: the backup comment is requested when the body is not
\* empty, the update otherwise.
PullsGetSettles(ok, body, e) ==
    /\ phase = "get"
    /\ IF ok
       THEN /\ currentDescription' = body
            /\ phase' = IF NeedsBackup(body) THEN "comment" ELSE "update"
            /\ trace' = Append(trace, IF NeedsBackup(body)
                                      THEN "issues.createComment"
                                      ELSE "pulls.update")
            /\ updateRequests' =
                   IF NeedsBackup(body) THEN updateRequests
                   ELSE Append(updateRequests,
                               UpdateParams(generatedDescription, generatedTitle))
            /\ UNCHANGED << failed, runError >>
       ELSE /\ Catch(e, failed)
            /\ UNCHANGED << trace, currentDescription, updateRequests >>
    /\ UNCHANGED << eventName, updateTitleInput, geminiModelInput, outputs, generatedDescription,
                    rawTitle, diffOutput, changedFiles, currentTitle,
                    generatedTitle, comments >>
    /\ UNCHANGED helperVars

\* issues.createComment settles: the update is requested.
CreateCommentSettles(ok, e) ==
    /\ phase = "comment"
    /\ IF ok
       THEN /\ comments' =
                   Append(comments, OriginalDescriptionComment(currentDescription))
            /\ phase' = "update"
            /\ trace' = Append(trace, "pulls.update")
            /\ updateRequests' =
                   Append(updateRequests,
                          UpdateParams(generatedDescription, generatedTitle))
            /\ UNCHANGED << failed, runError >>
       ELSE /\ Catch(e, failed)
            /\ UNCHANGED << trace, comments, updateRequests >>
    /\ UNCHANGED << eventName, updateTitleInput, geminiModelInput, outputs, generatedDescription,
                    rawTitle, currentDescription, diffOutput, changedFiles,
                    currentTitle, generatedTitle >>
    /\ UNCHANGED helperVars

\* pulls.update settles: the outputs are set and run() ends.
PullsUpdateSettles(ok, e) ==
    /\ phase = "update"
    /\ IF ok
       THEN /\ outputs' =
                 << [name |-> "pr_number", value |-> NumberToString(PullRequestNumber)],
                    [name |-> "description", value |-> generatedDescription] >>
            /\ phase' = "done"
            /\ UNCHANGED << failed, runError >>
       ELSE /\ Catch(e, failed)
            /\ UNCHANGED outputs
    /\ UNCHANGED << eventName, updateTitleInput, geminiModelInput, trace, generatedDescription,
                    rawTitle, currentDescription, diffOutput, changedFiles,
                    currentTitle, generatedTitle, comments, updateRequests >>
    /\ UNCHANGED helperVars

Next ==
    \/ Run
    \/ \E ok \in BOOLEAN : GitFetchSettles(ok)
    \/ \E r \in Responses : ProviderReturns(r)
    \/ \E e \in ProviderErrors : ProviderThrows(e)
    \/ Wake
    \/ \E r \in Responses : FollowUpReturns(r)
    \/ \E e \in ProviderErrors : FollowUpThrows(e)
    \/ GenerationSettles
    \/ \E ok \in BOOLEAN, body \in Bodies, e \in ApiErrors :
           PullsGetSettles(ok, body, e)
    \/ \E ok \in BOOLEAN, e \in ApiErrors : CreateCommentSettles(ok, e)
    \/ \E ok \in BOOLEAN, e \in ApiErrors : PullsUpdateSettles(ok, e)

\* Every input, at most MaxFaults provider failures.
Spec == Init /\ [][Next]_vars
\* Both helpers, at most MaxFallbackFaults provider failures.
SpecFallback == InitFallback /\ [][Next]_vars
\* The "config" helper against a provider that may fail every call.
SpecExhaust == InitExhaust /\ [][Next]_vars
\* The "config" helper with the default model, any number of failures, random jitter.
SpecBackoff == InitBackoff /\ [][Next]_vars
\* Every event and update_title input, at most MaxFaults provider failures.
SpecRun == InitRun /\ [][Next]_vars

(***************************************************************************)
(* The title synthesizer on its own: a run whose title generation has      *)
(* just resolved, for every raw title, diff, changed-file list and current *)
(* title below.                                                            *)
(***************************************************************************)
Repeat(unit, n) == [k \in 1..(n * Len(unit)) |-> unit[((k - 1) % Len(unit)) + 1]]
\* The length of a directory name too long for a 72-character title.
LongNameLen == 66
\* How many times "ab. " is repeated in a raw title longer than 72 characters.
LongTitleUnits == 20
LongName == Repeat(<< "d" >>, LongNameLen)
RawTitles ==
    { << >>,
      << "A", "d", "d", "s", " ", "n", "e", "w", " ", "c", "a", "c", "h", "i", "n", "g", " ", "l", "a", "y", "e", "r" >>,
      << "I", "m", "p", "l", "e", "m", "e", "n", "t", " ", "c", "a", "c", "h", "i", "n", "g" >>,
      << "f", "e", "a", "t", "(", "a", "p", "i", ")", ":", " ", "a", "d", "d", " ", "x" >>,
      << "F", "i", "x", "(", "U", "I", ")", ":", " ", "F", "i", "x", "e", "s", " ", "y", "." >>,
      << " ", "#", " ", "T", "i", "t", "l", "e" >>,
      << " ", "\"", "q", "u", "o", "t", "e", "d", "\"", " " >>,
      << "'", "#", " ", "x", "'" >>,
      << "f", "e", "a", "t", ":", " ", "#", "1", "2" >>,
      << "d", "o", "c", "s", ":", " ", "U", "p", "d", "a", "t", "e", "d", " ", "r", "e", "a", "d", "m", "e", " ", "#", "3", "4" >>,
      Repeat(<< "a", "b", ".", " " >>, LongTitleUnits),
      << "f", "i", "x", "(", "u", "i", ")", ":" >> \o LongName,
      << "c", "h", "o", "r", "e", ":" >>,
      << "R", "e", "f", "a", "c", "t", "o", "r", "s", " ", " ", "t", "h", "e", " ", "p", "a", "r", "s", "e", "r", "!" >>,
      << "A", "d", "d", "s", " ", "c", "a", "c", "h", "e", " ", "l", "a", "y", "e", "r", " ", "#", "1", "2" >>,
      << "u", "p", "d", "a", "t", "e", " ", "t", "h", "e", " ", "d", "o", "c", "s" >> }
Diffs ==
    { << >>,
      << "f", "i", "x", " ", "b", "u", "g" >>,
      << "c", "r", "e", "a", "t", "e", " ", "m", "o", "d", "e", " ", "a", " ", "c", "r", "e", "a", "t", "e", " ", "m", "o", "d", "e", " ", "b", " ", "n", "e", "w", " ", "f", "i", "l", "e", " ", "m", "o", "d", "e", " ", "c" >>,
      << "t", "u", "r", "b", "o" >>,
      << "r", "e", "f", "a", "c", "t", "o", "r", " ", "f", "o", "r", " ", "s", "p", "e", "e", "d" >> }
FileLists ==
    { << >>,
      << << "t", "u", "r", "b", "o", ".", "j", "s", "o", "n" >> >>,
      << << ".", "g", "i", "t", "h", "u", "b" >> >>,
      << << >>, << "s", "r", "c", "/", "c", "a", "c", "h", "e", "/", "a", ".", "t", "s" >> >>,
      << << "/" >> >>,
      << << "a", "p", "p", "s", "/", "w", "e", "b", "/", "a", ".", "t", "s" >>, << "p", "a", "c", "k", "a", "g", "e", "s", "/", "c", "o", "r", "e", "/", "b", ".", "t", "s" >> >>,
      << << "a", "/", "x" >>, << "b", "/", "y" >>, << "c", "/", "z" >> >>,
      << << "a", "/", "1" >>, << "a", "/", "2" >>, << "a", "/", "3" >>, << "b", "/", "y" >>, << "c", "/", "z" >>, << "d", "/", "w" >> >>,
      << << "s", "r", "c", "/", "c", "a", "c", "h", "e", "/", "a", ".", "t", "s" >>, << "s", "r", "c", "/", "c", "a", "c", "h", "e", "/", "b", ".", "t", "s" >> >>,
      << << "s", "r", "c", "/" >> \o LongName \o << "/", "a", ".", "t", "s" >> >>,
      << << "R", "E", "A", "D", "M", "E", ".", "m", "d" >> >>,
      << << "L", "I", "C", "E", "N", "S", "E" >> >>,
      << << "a", "p", "p", "s", "/", "w", "e", "b", "/", "a", ".", "t", "s" >>, << "a", "p", "p", "s", "/", "a", "p", "i", "/", "b", ".", "t", "s" >>, << "a", "p", "p", "s", "/", "w", "e", "b", "/", "c", ".", "t", "s" >> >>,
      << << "p", "a", "c", "k", "a", "g", "e", "s", "/", "c", "o", "r", "e", "/", "a", ".", "t", "s" >>, << "p", "a", "c", "k", "a", "g", "e", "s", "/", "u", "i", "/", "b", ".", "t", "s" >> >>,
      << << ".", "g", "i", "t", "h", "u", "b", "/", "w", "o", "r", "k", "f", "l", "o", "w", "s", "/", "c", "i", ".", "y", "m", "l" >> >>,
      << << "p", "a", "c", "k", "a", "g", "e", ".", "j", "s", "o", "n" >>, << "s", "r", "c", "/", "a", ".", "t", "s" >> >>,
      << << "s", "t", "y", "l", "e", "s", "/", "m", "a", "i", "n", ".", "c", "s", "s" >> >>,
      << << "b", "a", "c", "k", "e", "n", "d", "/", "a", ".", "p", "y" >>, << "f", "r", "o", "n", "t", "e", "n", "d", "/", "b", ".", "j", "s" >> >>,
      << << "d", "o", "c", "s", "/", "x", ".", "m", "d" >>, << "t", "e", "s", "t", "s", "/", "a", ".", "t", "e", "s", "t", ".", "t", "s" >> >>,
      << << "a", "/", "x" >>, << "b", "/", "y" >>, << "c", "/", "z" >>, << "d", "/", "w" >> >>,
      << << "s", "r", "c", "/", "c", "a", "c", "h", "e", "/", "a", ".", "t", "e", "s", "t", ".", "t", "s" >>, << "L", "I", "C", "E", "N", "S", "E" >> >> }
CurrentTitles == { << >>, << "F", "i", "x", " ", "l", "o", "g", "i", "n", " ", "b", "u", "g" >> }
TitleRepositories ==
    { Repository(d, files, title) :
          d \in Diffs, files \in FileLists, title \in CurrentTitles }

\* run() with update_title 'true' at the moment the provider has answered
\* the title request with the one text part raw and finish reason STOP.
InitTitle ==
    \E i \in Impls, raw \in RawTitles, r \in TitleRepositories :
        LET name   == IF i = "config" THEN Resolve(i, EnvUnset, "").model
                      ELSE ResolveModelName("")
            tokens == IF i = "config" THEN Resolve(i, EnvUnset, "").maxOutputTokens
                      ELSE LegacyMaxOutputTokens(EnvUnset)
            resp   == [finishReason |-> "STOP", parts |-> << raw >>]
            answer == IF i = "config" THEN concatCandidatePartsText(resp)
                      ELSE ResponseText(resp)
        IN  /\ impl = i
            /\ env = EnvUnset
            /\ modelParam = ""
            /\ config = Resolve(i, EnvUnset, "")
            /\ pc = "resolved"
            /\ modelName = name
            /\ initialMaxOutputTokens = tokens
            /\ payload = InitialPayload(name, tokens, TitlePrompt)
            /\ sentModel = ModelAt(Ordered(name), 0)
            /\ ordered = << >>
            /\ currentModelIndex = 0
            /\ currentModel = ""
            /\ consecutive503 = 0
            /\ attempt = 0
            /\ calls = 1
            /\ sleeps = 0
            /\ err = NoErr
            /\ retryOutcome = "returned"
            /\ servedAttempt = 1
            /\ modelUsed = ModelAt(Ordered(name), 0)
            /\ text = answer
            /\ result = answer
            /\ cause = NoErr
            /\ faultsLeft = 0
            /\ prompt = TitlePrompt
            /\ response = resp
            /\ followUp = NoResponse
            /\ sent = << InitialPayload(name, tokens, TitlePrompt) >>
            /\ followUpCalls = 0
            /\ delay = 0
            /\ randoms = { 0 }
            /\ eventName = "pull_request"
            /\ updateTitleInput = << "t", "r", "u", "e" >>
            /\ geminiModelInput = ""
            /\ phase = "title"
            /\ trace = << "git fetch", "description:start", "description:end",
                          "title:start" >>
            /\ failed = << >>
            /\ outputs = << >>
            /\ runError = NoError
            /\ generatedDescription = << "a" >>
            /\ rawTitle = << >>
            /\ currentDescription = << >>
            /\ diffOutput = r.diffOutput
            /\ changedFiles = r.changedFiles
            /\ currentTitle = r.currentTitle
            /\ generatedTitle = NoTitle
            /\ comments = << >>
            /\ updateRequests = << >>
            /\ usage = NoUsage
            /\ usageLog = IF i = "config"
                          THEN logUsageDiagnostics(NoUsage, answer)
                          ELSE NoDiagnostics
\* run() from the resolved title generation on.
NextTitle ==
    \/ GenerationSettles
    \/ \E ok \in BOOLEAN, body \in Bodies, e \in ApiErrors :
           PullsGetSettles(ok, body, e)
    \/ \E ok \in BOOLEAN, e \in ApiErrors : CreateCommentSettles(ok, e)
    \/ \E ok \in BOOLEAN, e \in ApiErrors : PullsUpdateSettles(ok, e)
\* The title synthesizer applied to every input above, then the publication.
SpecTitle == InitTitle /\ [][NextTitle]_vars

(***************************************************************************)
(* The error classes the properties speak of.                              *)
(***************************************************************************)
RateLimitErrors == { ErrStatus429, ErrMessage429 }
TransientErrors == { ErrStatus503, ErrOverloaded }
RetryableErrors == RateLimitErrors \cup TransientErrors
FatalErrors == { ErrStatus500, ErrMessage4290 }

InRetry == pc \in { "awaiting", "sleeping" }
\* A request is in flight at the provider.
InFlight == pc \in { "awaiting", "awaitingFollowUp" }
\* Position of x in seq.
Pos(seq, x) == CHOOSE i \in 1..Len(seq) : seq[i] = x
LastModel == ladder[Len(ladder)]

\* C1: generateWithRetry throws only a non-retryable error or after its
\* 100th provider call, and a provider success at any attempt (all earlier
\* attempts having failed with retryable errors) makes it return that
\* attempt's result with the model of that attempt.
C1_FailsOnlyFatalOrExhausted ==
    /\ [](retryOutcome = "threw" => (cause \in FatalErrors \/ calls = 100))
    /\ [][(pc = "awaiting" /\ err' = NoErr)
            => /\ pc' # "rejected"
               /\ servedAttempt' = attempt
               /\ modelUsed' = currentModel]_vars
\* generateWithRetry returned the result of attempt 100, on the last ladder model.
C1_Witness ==
    /\ retryOutcome = "returned"
    /\ servedAttempt = 100
    /\ modelUsed = LastModel

\* C2: a provider failure that is neither rate-limit nor transient-unavailable
\* makes generateWithRetry throw that error on the same attempt: no sleep is
\* started and no provider call is issued, then or after the rejection.
C2_FatalAbortsAtOnce ==
    /\ [][(pc = "awaiting" /\ err' \in FatalErrors)
            => /\ pc' = "rejected"
               /\ cause' = err'
               /\ sleeps' = sleeps
               /\ calls' = calls]_vars
    /\ [][pc = "rejected"
            => (calls' = calls /\ sleeps' = sleeps /\ ~InFlight')]_vars
\* A fatal error aborted attempt 57, after the ladder had moved to its last model.
C2_Witness ==
    /\ pc = "rejected"
    /\ cause = ErrMessage4290
    /\ calls = 57
    /\ sentModel = LastModel

\* C3: one generateWithRetry call issues at most 100 provider calls, never
\* goes past attempt 100, and every step of the loop either ends the call or
\* advances (attempt, awaiting < sleeping), so the call ends within 100 attempts.
C3_AtMost100Calls ==
    /\ [](calls <= 100 /\ attempt <= 100)
    /\ [][InRetry =>
            \/ ~InRetry'
            \/ payload'.kind # payload.kind
            \/ 2 * attempt' + (IF pc' = "sleeping" THEN 1 ELSE 0)
                 > 2 * attempt + (IF pc = "sleeping" THEN 1 ELSE 0)]_vars
\* The call ended with its 100th provider call failed.
C3_Witness == pc = "rejected" /\ retryOutcome = "threw" /\ calls = 100

\* C4: when all 100 attempts failed with retryable errors, generateWithRetry
\* throws the dedicated exhaustion error.
C4_ExhaustionError ==
    (retryOutcome = "threw" /\ calls = 100 /\ cause \notin FatalErrors)
        => cause = ExhaustedError

\* C5: createPullRequestDescription never fails because of a rate-limit or
\* transient-unavailable provider error.
C5_RetryableNeverSurfaces == pc = "rejected" => cause \notin RetryableErrors

\* C6: a ladder switch resets the consecutive-503 counter, so that the k-th
\* switch cannot happen before attempt 11 * k.
C6_SwitchResetsCounter ==
    /\ [](InRetry => attempt >= 11 * currentModelIndex)
    /\ [][(InRetry /\ InRetry' /\ currentModelIndex' > currentModelIndex)
            => consecutive503' = 0]_vars

\* C7: within one generateWithRetry call currentModelIndex stays inside the
\* ladder, never decreases, grows by at most 1 per attempt, and the attempt's
\* model (the one the provider call is sent to) is ordered[currentModelIndex].
C7_ModelIndexMonotone ==
    /\ [](InRetry =>
            /\ 0 <= currentModelIndex
            /\ currentModelIndex < Len(ordered)
            /\ currentModel = ordered[currentModelIndex + 1]
            /\ (pc = "awaiting" => sentModel = ordered[currentModelIndex + 1]))
    /\ [][(InRetry /\ InRetry' /\ payload'.kind = payload.kind /\ pc' # pc)
            => /\ currentModelIndex' >= currentModelIndex
               /\ currentModelIndex' <= currentModelIndex + 1
               /\ (pc = "sleeping" => currentModelIndex' = currentModelIndex)]_vars
\* An attempt is in flight on the last model of the four-entry ladder.
C7_Witness ==
    /\ pc = "awaiting"
    /\ Len(ordered) = 4
    /\ currentModelIndex = 3
    /\ attempt > 13

NoDuplicates(seq) == \A i, j \in 1..Len(seq) : i # j => seq[i] # seq[j]
HasAll(seq) == \A k \in 1..Len(ladder) : \E i \in 1..Len(seq) : seq[i] = ladder[k]
\* C8 as stated: requested model first, every model of the fixed list present
\* in the fixed list's relative order, no name twice.
C8_LadderInListOrder ==
    InRetry =>
        /\ ordered[1] = modelName
        /\ HasAll(ordered)
        /\ NoDuplicates(ordered)
        /\ \A a, b \in 1..Len(ladder) :
               a < b => Pos(ordered, ladder[a]) < Pos(ordered, ladder[b])
\* C8 amended: requested model first, every model of the fixed list present,
\* the models of the fixed list other than the requested one in the fixed
\* list's relative order, nothing else, no name twice.
C8_LadderRequestedFirst ==
    InRetry =>
        /\ ordered[1] = modelName
        /\ HasAll(ordered)
        /\ NoDuplicates(ordered)
        /\ \A i \in 2..Len(ordered) : \E k \in 1..Len(ladder) : ordered[i] = ladder[k]
        /\ \A a, b \in 1..Len(ladder) :
               (a < b /\ ladder[a] # modelName /\ ladder[b] # modelName)
                   => Pos(ordered, ladder[a]) < Pos(ordered, ladder[b])
\* The ladder was built for a requested model that is last in the fixed list.
C8_Witness ==
    /\ pc = "awaiting"
    /\ modelName = LastModel
    /\ ordered = << "gemini-1.5-flash", "gemini-2.5-pro", "gemini-2.5-flash" >>

\* C9: the bumped-token retry and the continuation request go to the model
\* generateWithRetry returned as modelUsed for the first response.
C9_FollowUpOnServingModel ==
    (InFlight /\ payload.kind \in { "bumped", "continuation" })
        => sentModel = modelUsed

\* C10: every request in flight at the provider carries maxOutputTokens >= 768.
C10_TokenFloor == InFlight => payload.maxOutputTokens >= 768

(***************************************************************************)
(* The truncation policy of createPullRequestDescription.                  *)
(***************************************************************************)
\* The first successful response of the call was cut by MAX_TOKENS.
FirstTruncated == response # NoResponse /\ response.finishReason = "MAX_TOKENS"
\* ... and the text extracted from it was empty / was not empty.
FirstTruncatedEmpty == FirstTruncated /\ IsBlank(text)
FirstTruncatedPartial == FirstTruncated /\ text # << >>
\* The call is past its first response and has not failed.
AfterFirst == pc \in { "awaiting", "sleeping", "awaitingFollowUp", "resolved" }

C12_OneContinuation ==
    /\ []((FirstTruncatedPartial /\ AfterFirst) =>
            /\ Len(sent) = 2
            /\ payload = sent[2]
            /\ sent[2].kind = "continuation"
            /\ Len(sent[2].contents) = 3
            /\ sent[2].contents[1] = Turn("user", prompt)
            /\ sent[2].contents[2] = Turn("model", text)
            /\ sent[2].contents[3] = Turn("user", ContinueInstruction)
            /\ (impl = "config" => followUpCalls = 1)
            /\ (followUp # NoResponse => pc = "resolved"))
    /\ [][(FirstTruncatedPartial /\ followUp = NoResponse /\ followUp' # NoResponse)
            => pc' = "resolved"]_vars
    /\ [][(pc = "resolved" /\ FirstTruncatedPartial /\ phase' = phase)
            => (~InFlight' /\ pc' # "sleeping" /\ sent' = sent
                /\ followUpCalls' = followUpCalls)]_vars
\* The continuation was itself cut by MAX_TOKENS and the call has returned.
C12_Witness ==
    /\ FirstTruncatedPartial
    /\ pc = "resolved"
    /\ followUp.finishReason = "MAX_TOKENS"
    /\ followUp.parts # << >>
    /\ Len(sent) = 2

\* C13: after a first response with MAX_TOKENS and non-empty text, the text
\* returned after the continuation is at least as long as the text before it
\* (stated for a partial text that is not only white space).
C13_ContinuationNeverShorter ==
    (FirstTruncatedPartial /\ ~IsBlank(text) /\ pc = "resolved")
        => Len(result) >= Len(text)

\* The text the helper extracts from a response.
ExtractedText(i, r) ==
    IF i = "config" THEN concatCandidatePartsText(r) ELSE ResponseText(r)
\* C14: after a first response with a finish reason other than MAX_TOKENS
\* the call has returned the text extracted from that response, as it is,
\* and has built and sent no further request.
C14_OtherFinishReturned ==
    (response # NoResponse /\ response.finishReason # "MAX_TOKENS") =>
        /\ pc = "resolved"
        /\ result = ExtractedText(impl, response)
        /\ result = text
        /\ Len(sent) = 1
        /\ followUpCalls = 0
        /\ followUp = NoResponse
        /\ payload.kind = "initial"
\* A response stopped by SAFETY was returned after one failed attempt.
C14_Witness ==
    /\ pc = "resolved"
    /\ response.finishReason = "SAFETY"
    /\ response.parts = << << "a", " " >>, << "b" >> >>
    /\ result = << "a", " ", "b" >>
    /\ servedAttempt = 2

(***************************************************************************)
(* Backoff.                                                                *)
(***************************************************************************)
\* min(1000 * 2^(n-1), 30000): 1000 * 2^(n-1) is 32000 or more from n = 6 on.
ExpectedBackoff(n) == IF n >= 6 THEN 30000 ELSE 1000 * 2 ^ (n - 1)
\* C15: the delay computed for attempt n (1..100) is
\* min(1000 * 2^(n-1), 30000) + jitter with 0 <= jitter < 250, and while
\* 1000 * 2^(n-1) is below the cap the delay of attempt n+1 is at least the
\* delay of attempt n, whatever the two jitters.
C15_BackoffDelay ==
    /\ [](InRetry =>
            /\ attempt \in 1..100
            /\ delay - ExpectedBackoff(attempt) >= 0
            /\ delay - ExpectedBackoff(attempt) < 250)
    /\ [][(InRetry /\ InRetry' /\ attempt' = attempt + 1
             /\ 1000 * 2 ^ (Min(attempt, 6) - 1) < 30000)
            => delay' >= delay]_vars
\* Attempt 6, the first capped one, drew the smallest jitter after attempts
\* that had failed.
C15_Witness ==
    /\ pc = "awaiting"
    /\ attempt = 6
    /\ delay = 30000
    /\ sleeps = 5

\* C16: a backoff sleep starts only when attempt n < 100 has failed with a
\* retryable error, lasts at most 30000 ms plus a jitter below 250 ms, and
\* ends in attempt n+1; nothing else sleeps, so a call sleeps at most 99 times.
C16_SleepOnlyBetweenAttempts ==
    /\ [](pc = "sleeping" =>
            /\ err \in RetryableErrors
            /\ attempt < 100
            /\ delay <= 30000 + 249)
    /\ [](sleeps <= 99)
    /\ [][sleeps' > sleeps =>
            /\ sleeps' = sleeps + 1
            /\ pc = "awaiting"
            /\ pc' = "sleeping"
            /\ err' \in RetryableErrors
            /\ attempt' = attempt
            /\ attempt < 100]_vars
    /\ [][pc' = "sleeping" => (pc = "awaiting" /\ sleeps' = sleeps + 1)]_vars
    /\ [][pc = "sleeping" => (pc' = "awaiting" /\ attempt' = attempt + 1
                               /\ sleeps' = sleeps)]_vars
\* The 99th sleep of a call, of the longest possible duration.
C16_Witness ==
    /\ pc = "sleeping"
    /\ sleeps = 99
    /\ attempt = 99
    /\ delay = 30249

(***************************************************************************)
(* PullRequestUpdater.run                                                  *)
(***************************************************************************)
Occurs(ev) == \E i \in 1..Len(trace) : trace[i] = ev
ApiCalls == { "pulls.get", "issues.createComment", "pulls.update" }
\* A provider request is in flight or a retry is pending.
Generating == pc \in { "awaiting", "sleeping", "awaitingFollowUp" }

\* C17: with an event other than pull_request, run() ends in failure with
\* the wrong-event error without having started git fetch, a provider
\* request or a pull-request API call.
C17_WrongEventNoNetwork ==
    eventName # "pull_request" =>
        /\ trace = << >>
        /\ pc = "ready"
        /\ calls = 0
        /\ sent = << >>
        /\ outputs = << >>
        /\ phase \in { "start", "done" }
        /\ (phase = "done" =>
               /\ runError = [isError |-> TRUE, message |-> InvalidEventContext]
               /\ failed # << >>
               /\ failed[1] = WrongEventMessage)
\* A pull_request_target run, which carries a pull request, was refused.
C17_Witness ==
    /\ eventName = "pull_request_target"
    /\ phase = "done"
    /\ failed[1] = WrongEventMessage
    /\ trace = << >>

\* The place of an external call in the order of run().
Rank(ev) ==
    CASE ev = "git fetch" -> 0
      [] ev = "description:start" -> 1
      [] ev = "description:end" -> 2
      [] ev = "title:start" -> 3
      [] ev = "title:end" -> 4
      [] ev = "pulls.get" -> 5
      [] ev = "issues.createComment" -> 6
      [] ev = "pulls.update" -> 7
\* C18: the description generation has ended before the title generation
\* starts, the title generation runs exactly when update_title is 'true',
\* every generation has ended before the first pull-request API call, and
\* provider requests happen only inside the two generation calls.
C18_SequentialOrder ==
    /\ \A i, j \in 1..Len(trace) : i < j => Rank(trace[i]) < Rank(trace[j])
    /\ Occurs("title:start") => Occurs("description:end")
    /\ (\E ev \in ApiCalls : Occurs(ev)) =>
            /\ Occurs("description:end")
            /\ Occurs("title:start") = Occurs("title:end")
            /\ Occurs("title:end") =
                   ([k \in 1..Len(updateTitleInput) |->
                        ToLowerChar(updateTitleInput[k])] = << "t", "r", "u", "e" >>)
            /\ ~Generating
    /\ Generating => phase \in { "description", "title" }
    /\ (phase = "description" => ~Occurs("description:end"))
    /\ (phase = "title" => Occurs("description:end") /\ ~Occurs("title:end"))
\* A run with update_title = 'True' went through every step and set its outputs.
C18_Witness ==
    /\ phase = "done"
    /\ updateTitleInput = << "T", "r", "u", "e" >>
    /\ outputs # << >>
    /\ trace = << "git fetch", "description:start", "description:end",
                  "title:start", "title:end", "pulls.get",
                  "issues.createComment", "pulls.update" >>

\* The two ways a run may end.
RunSucceeded ==
    /\ failed = << >>
    /\ runError = NoError
    /\ Len(outputs) = 2
    /\ outputs[1] = [name |-> "pr_number", value |-> << "7" >>]
    /\ outputs[2].name = "description"
    /\ outputs[2].value = generatedDescription
    /\ trace # << >>
    /\ trace[Len(trace)] = "pulls.update"
RunFailed ==
    /\ failed # << >>
    /\ outputs = << >>
    /\ runError # NoError
    /\ failed[Len(failed)] =
           (IF runError.isError THEN runError.message ELSE << "Unknown error" >>)
    /\ (pc = "rejected" => runError.message = GeminiErrorPrefix \o cause.msg)
\* C19: a run that has ended has either completed every step, set both
\* outputs and not been marked failed, or been marked failed with the message
\* of the error caught and set no output; outputs and the failure mark never
\* occur together, and neither occurs before the run has ended.
C19_NoPartialOutcome ==
    /\ (phase = "done" => (RunSucceeded \/ RunFailed))
    /\ ~(RunSucceeded /\ RunFailed)
    /\ ~(outputs # << >> /\ failed # << >>)
    /\ (phase # "done" => (outputs = << >> /\ failed = << >>))
\* The update failed after the backup comment had been posted: the run is
\* marked failed with the API error's message and no output is set.
C19_Witness ==
    /\ phase = "done"
    /\ Occurs("issues.createComment")
    /\ trace[Len(trace)] = "pulls.update"
    /\ failed = << << "Not Found" >> >>
    /\ outputs = << >>

\* C20: a failing run raises the failure signal exactly once.
C20_SetFailedOnce == (phase = "done" /\ failed # << >>) => Len(failed) = 1

(***************************************************************************)
(* Publication.                                                            *)
(***************************************************************************)
\* C21: an update request is issued for a pull request with a non-empty body
\* only after the backup comment holding that body was created; a failed
\* comment creation ends the run in failure without an update request; a
\* posted comment is never removed, and an update that fails after it leaves
\* the run failed with the comment in place.
C21_BackupBeforeUpdate ==
    /\ []((updateRequests # << >> /\ currentDescription # << >>) =>
             /\ comments = << OriginalDescriptionComment(currentDescription) >>
             /\ Occurs("issues.createComment")
             /\ Pos(trace, "issues.createComment") < Pos(trace, "pulls.update"))
    /\ []((phase = "done" /\ trace # << >>
              /\ trace[Len(trace)] = "issues.createComment") =>
             (failed # << >> /\ updateRequests = << >> /\ comments = << >>))
    /\ [][comments # << >> => comments' = comments]_vars
    /\ []((phase = "done" /\ updateRequests # << >> /\ outputs = << >>) =>
             /\ failed # << >>
             /\ (currentDescription # << >> =>
                     comments = << OriginalDescriptionComment(currentDescription) >>))
\* The update failed after the backup comment was posted.
C21_Witness ==
    /\ phase = "done"
    /\ failed # << >>
    /\ currentDescription # << >>
    /\ comments # << >>
    /\ updateRequests # << >>

(***************************************************************************)
(* Title synthesis.                                                        *)
(***************************************************************************)
\* run() has just synthesized the title.
TitleSynthesized == generatedTitle.set /\ phase = "get"
\* The sanitized raw title and what it parses to, once run() has the title.
Cleaned == sanitizeTitle(rawTitle)
Parsed == parseConventionalCommit(Cleaned)
\* v starts with one of the ten types, an optional scope in parentheses, a
\* colon and a space.
HasCompletePrefix(v) ==
    \E k \in 1..Len(CommitTypes) :
        LET t == CommitTypes[k]
        IN  \/ StartsWith(v, t \o << ":", " " >>)
            \/ /\ StartsWith(v, t \o << "(" >>)
               /\ \E c \in (Len(t) + 3)..(Len(v) - 2) :
                      /\ v[c] = ")" /\ v[c + 1] = ":" /\ v[c + 2] = " "
                      /\ \A j \in (Len(t) + 2)..(c - 1) : v[j] # ")"

\* C22: the synthesized title is at most 72 characters long and starts with
\* the complete prefix, type and scope included.
C22_TitleWithinLimit ==
    TitleSynthesized =>
        /\ Len(generatedTitle.value) <= maxLen
        /\ HasCompletePrefix(generatedTitle.value)

\* The title synthesizer: sanitizeTitle followed by formatConventionalCommitTitle.
Synthesized(raw) == Formatted(sanitizeTitle(raw), diffOutput, changedFiles, currentTitle)

\* C23: the synthesizer applied to a title it produced gives a title with the
\* same type and scope and with one prefix only: its subject does not start
\* with the prefix again.
C23_SynthesizerIdempotent ==
    TitleSynthesized =>
        LET first == Synthesized(rawTitle)
            again == Synthesized(generatedTitle.value)
        IN  /\ again.type = first.type
            /\ again.scope = first.scope
            /\ ~StartsWith(again.finalSubject, TrimEnd(first.prefix))

\* The word a text starts with.
LeadingWord(s) ==
    SubSeq(s, 1, LeadingRun(s, { c \in { s[k] : k \in 1..Len(s) } : IsWordPart(c) }))
\* Every changed file is a source-code file under src/<dir>/.
AllUnderSrc(files, dir) ==
    /\ files # << >>
    /\ \A i \in 1..Len(files) :
           /\ isCodeFile(files[i])
           /\ StartsWith(files[i], << "s", "r", "c", "/" >> \o dir \o << "/" >>)
\* No category keyword, monorepo or new-file signal in the diff or the titles.
NoTextSignal(raw) ==
    LET dt == SignalText(diffOutput, currentTitle, sanitizeTitle(raw))
    IN  /\ ~ContainsAnyWord(dt, RefactorWords \cup PerfWords \cup FixWords)
        /\ ~ContainsAnyWord(dt, { << "m", "o", "n", "o", "r", "e", "p", "o" >>, << "t", "u", "r", "b", "o" >> })
        /\ ~Contains(dt, << "t", "u", "r", "b", "o", ".", "j", "s", "o", "n" >>)
        /\ ~Contains(dt, << "p", "n", "p", "m", "-", "w", "o", "r", "k", "s", "p", "a", "c", "e" >>)
        /\ addedFileSignals(diffOutput) = 0
\* The raw title is plain text that starts with a word of the lemma table and
\* has no prefix to parse.
PlainLemmaTitle(raw) ==
    /\ raw = sanitizeTitle(raw)
    /\ parseConventionalCommit(raw).type = << >>
    /\ StripIssueReference(raw) = raw
    /\ raw # << >>
    /\ IsLetter(raw[1])
    /\ InLemmas(LowerCase(LeadingWord(raw)))

\* C24: a plain raw title that starts with a word of the lemma table, with
\* source-code files under src/<dir>/ only and no keyword, becomes
\* feat(<dir>): <lemma> <rest of the title>, at most 72 characters long.
C24_LemmaTitleUnderSrc ==
    (TitleSynthesized /\ PlainLemmaTitle(rawTitle) /\ NoTextSignal(rawTitle)) =>
        \A i \in 1..Len(changedFiles) :
            LET dir == PathParts(changedFiles[i])[2]
            IN  (Len(PathParts(changedFiles[i])) > 2 /\ AllUnderSrc(changedFiles, dir)) =>
                    /\ generatedTitle.value =
                           << "f", "e", "a", "t", "(" >> \o dir \o << ")", ":", " " >>
                           \o Base(LowerCase(LeadingWord(rawTitle)))
                           \o DropStart(rawTitle, Len(LeadingWord(rawTitle)))
                    /\ Len(generatedTitle.value) <= maxLen

\* title reads type(scope): subject with the k-th type in any letter case
\* and the closing parenthesis at position c.
HasTypeAndScope(title, k, c) ==
    LET t == CommitTypes[k]
    IN  /\ c > Len(t) + 2
        /\ c + 1 < Len(title)
        /\ title[c] = ")"
        /\ StartsWith(LowerCase(SubSeq(title, 1, Len(t) + 1)), t \o << "(" >>)
        /\ \A j \in (Len(t) + 2)..(c - 1) : title[j] # ")"
        /\ title[c + 1] = ":"
        /\ \E j \in (c + 2)..Len(title) : ~IsSpace(title[j])

\* C25: a sanitized title of the form type(scope): subject keeps its type,
\* in lower case, and its scope in the final title, whatever the diff, the
\* changed files and the current title are.
C25_ParsedTypeAndScopeKept ==
    TitleSynthesized =>
        LET title == sanitizeTitle(rawTitle)
        IN  \A k \in 1..Len(CommitTypes), c \in 1..Len(title) :
                HasTypeAndScope(title, k, c) =>
                    StartsWith(generatedTitle.value,
                               CommitTypes[k] \o << "(" >>
                               \o SubSeq(title, Len(CommitTypes[k]) + 2, c - 1)
                               \o << ")", ":", " " >>)
\* The title carries Fix(UI) where the classifier says feat and the files
\* say another scope.
C25_Witness ==
    /\ TitleSynthesized
    /\ HasTypeAndScope(Cleaned, Fix, 7)
    /\ Cleaned[1] = "F"
    /\ StartsWith(generatedTitle.value, << "f", "i", "x", "(", "U", "I", ")", ":", " " >>)
    /\ inferCommitTypeScored(diffOutput, changedFiles, currentTitle,
                             Parsed.subject) = CommitTypes[Feat]
    /\ chooseScopeFromFilesWithMonorepo(changedFiles) \notin { << >>, << "U", "I" >> }

\* The subject formatConventionalCommitTitle hands to toImperative.
SubjectOf(raw) ==
    LET title  == sanitizeTitle(raw)
        parsed == parseConventionalCommit(title)
    IN  Trim(StripIssueReference(IF parsed.type # << >> THEN parsed.subject
                                 ELSE title))

\* C26: toImperative replaces a leading word of the lemma table by its base
\* form and returns every other subject as it is, letter case included.
C26_ImperativeLeadingWord ==
    TitleSynthesized =>
        LET subject == SubjectOf(rawTitle)
            word    == LeadingWord(subject)
        IN  (subject # << >> /\ IsLetter(subject[1])) =>
                toImperative(subject) =
                    IF InLemmas(LowerCase(word))
                    THEN Base(LowerCase(word)) \o DropStart(subject, Len(word))
                    ELSE subject

\* C27: the sanitized title is at most 72 characters long, does not start
\* with a heading marker, is not wrapped in quote characters, has no white
\* space at either end nor two white-space characters in a row, and does not
\* end with '.', '!' or '?'.
C27_SanitizedTitleClean ==
    TitleSynthesized =>
        LET title == sanitizeTitle(rawTitle)
        IN  /\ Len(title) <= TitleCap
            /\ (title # << >> =>
                   /\ title[1] \notin HeadingMarks
                   /\ ~(title[1] \in Quotes /\ title[Len(title)] \in Quotes)
                   /\ ~IsSpace(title[1])
                   /\ ~IsSpace(title[Len(title)])
                   /\ title[Len(title)] \notin Punctuation)
            /\ \A k \in 1..(Len(title) - 1) : ~(IsSpace(title[k]) /\ IsSpace(title[k + 1]))

\* The type of the final title was inferred from the diff and the files.
TypeInferred == TitleSynthesized /\ Parsed.type = << >>

\* C28: the inferred type has the greatest score of the ten categories and
\* is the first category, in the declared order, that has it.
C28_InferredTypeMaximal ==
    TypeInferred =>
        LET sc == scores(diffOutput, changedFiles, currentTitle, Cleaned)
        IN  \E k \in 1..Len(CommitTypes) :
                /\ StartsWith(generatedTitle.value, CommitTypes[k])
                /\ generatedTitle.value[Len(CommitTypes[k]) + 1] \in { "(", ":" }
                /\ \A j \in 1..Len(CommitTypes) : sc[j] <= sc[k]
                /\ \A j \in 1..(k - 1) : sc[j] < sc[k]
\* Two categories are tied at a positive maximum and the earlier one is taken.
C28_Witness ==
    /\ TypeInferred
    /\ LET sc == scores(diffOutput, changedFiles, currentTitle, Cleaned)
       IN  \E k, j \in 1..Len(CommitTypes) :
               /\ k < j
               /\ sc[k] = sc[j]
               /\ sc[k] > 0
               /\ \A i \in 1..Len(CommitTypes) : sc[i] <= sc[k]
               /\ k # Feat
               /\ StartsWith(generatedTitle.value, CommitTypes[k])

\* No signal of the type inference fires: no changed file is a docs, test,
\* CI, build or style file, and the diff and the titles have no category
\* keyword, no monorepo signal and fewer than three new-file marks.
NoSignalFires ==
    /\ \A i \in DOMAIN changedFiles :
           /\ ~isDocsFile(changedFiles[i])
           /\ ~isTestFile(changedFiles[i])
           /\ ~isCiFile(changedFiles[i])
           /\ ~isBuildFile(changedFiles[i])
           /\ ~isStyleFile(changedFiles[i])
    /\ ~monorepoSignals(diffOutput, changedFiles, currentTitle, Cleaned)
    /\ addedFileSignals(diffOutput) < 3
    /\ ~ContainsAnyWord(SignalText(diffOutput, currentTitle, Cleaned), RefactorWords)
    /\ ~ContainsAnyWord(SignalText(diffOutput, currentTitle, Cleaned), PerfWords)
    /\ ~fixStrong(diffOutput, currentTitle, Cleaned)

\* C29: when no signal fires the inferred type is chore, and feat instead
\* exactly when some changed file is a general source-code file.
C29_DefaultTypeChore ==
    (TypeInferred /\ NoSignalFires) =>
        StartsWith(generatedTitle.value,
                   IF (\E i \in DOMAIN changedFiles : isCodeFile(changedFiles[i]))
                   THEN CommitTypes[Feat] ELSE CommitTypes[Chore])
\* The half of C29 that holds: with a source-code file and no other signal
\* the type is feat.
C29_CodeFileGivesFeat ==
    (TypeInferred /\ NoSignalFires /\ (\E i \in DOMAIN changedFiles : isCodeFile(changedFiles[i]))) =>
        StartsWith(generatedTitle.value, CommitTypes[Feat])

\* The child areas that the files touch under the directory container.
ChildAreas(files, container) ==
    { PathParts(files[i])[2] :
          i \in { j \in 1..Len(files) :
                      /\ Len(PathParts(files[j])) >= 2
                      /\ PathParts(files[j])[1] = container } }
\* The files touch two or more child areas of apps/ or of packages/.
TouchesSeveralAreas(files) ==
    \E container \in { << "a", "p", "p", "s" >>, << "p", "a", "c", "k", "a", "g", "e", "s" >> } :
        Cardinality(ChildAreas(files, container)) >= 2
\* The scope of the final title was inferred from the changed files.
ScopeInferred == TitleSynthesized /\ Parsed.scope = << >>

\* C30: when the changed files touch two or more distinct child areas under
\* apps/ or packages/, the inferred scope is monorepo.
C30_SeveralAreasGiveMonorepo ==
    (ScopeInferred /\ TouchesSeveralAreas(changedFiles)) =>
        /\ chooseScopeFromFilesWithMonorepo(changedFiles) = << "m", "o", "n", "o", "r", "e", "p", "o" >>
        /\ \E k \in 1..Len(CommitTypes) :
               StartsWith(generatedTitle.value,
                          CommitTypes[k] \o << "(", "m", "o", "n", "o", "r", "e", "p", "o", ")", ":", " " >>)

\* The final title has the scope written between its type and its colon.
HasScope(scope) ==
    \E k \in 1..Len(CommitTypes) :
        StartsWith(generatedTitle.value,
                   CommitTypes[k] \o << "(" >> \o scope \o << ")", ":", " " >>)
\* The changed files are one top-level file: one path, not empty, with no
\* directory segment.
SingleTopLevelFile ==
    /\ Len(changedFiles) = 1
    /\ changedFiles[1] # << >>
    /\ \A i \in DOMAIN changedFiles[1] : changedFiles[1][i] # "/"

\* C31: when the changed files are a single top-level file, the inferred
\* scope is repo, whatever the file is called.
C31_SingleTopLevelFileGivesRepo ==
    (ScopeInferred /\ SingleTopLevelFile) =>
        /\ chooseScopeFromFilesWithMonorepo(changedFiles) = << "r", "e", "p", "o" >>
        /\ HasScope(<< "r", "e", "p", "o" >>)

\* Some candidate group of the changed files exists and the greatest count
\* is less than half of the number of changed files.
BestCoversLessThanHalf ==
    LET candidates == Candidates(changedFiles)
    IN  /\ candidates # << >>
        /\ \A i \in DOMAIN candidates : 2 * candidates[i].count < Len(changedFiles)
\* One of the four conditions that make the scope the catch-all.
CatchAllCondition ==
    \/ BestCoversLessThanHalf
    \/ Len(Candidates(changedFiles)) > 3
    \/ /\ \E i \in DOMAIN changedFiles : hasApps(changedFiles[i])
       /\ \E i \in DOMAIN changedFiles : StartsWith(changedFiles[i], << "p", "a", "c", "k", "a", "g", "e", "s", "/" >>)
    \/ /\ \E i \in DOMAIN changedFiles : hasBackend(changedFiles[i])
       /\ \E i \in DOMAIN changedFiles : hasFrontend(changedFiles[i])

\* C32: for a non-empty list of changed files, the inferred scope is
\* monorepo whenever the best group covers less than half of the files, or
\* more than three groups are touched, or apps/ and packages/ are both
\* touched, or a backend and a frontend path are both touched.
C32_CatchAllScope ==
    (ScopeInferred /\ changedFiles # << >> /\ CatchAllCondition) =>
        /\ chooseScopeFromFilesWithMonorepo(changedFiles) = << "m", "o", "n", "o", "r", "e", "p", "o" >>
        /\ HasScope(<< "m", "o", "n", "o", "r", "e", "p", "o" >>)
\* apps/ and packages/ are both touched, each group has half of the files
\* and there are two groups: only the third condition holds.
C32_Witness ==
    /\ ScopeInferred
    /\ \E i \in DOMAIN changedFiles : hasApps(changedFiles[i])
    /\ \E i \in DOMAIN changedFiles : StartsWith(changedFiles[i], << "p", "a", "c", "k", "a", "g", "e", "s", "/" >>)
    /\ ~BestCoversLessThanHalf
    /\ Len(Candidates(changedFiles)) = 2
    /\ HasScope(<< "m", "o", "n", "o", "r", "e", "p", "o" >>)

RECURSIVE CountsSum(_)
\* The sum of the counts of the candidate groups.
CountsSum(candidates) ==
    IF candidates = << >> THEN 0
    ELSE candidates[1].count + CountsSum(Tail(candidates))

\* C33: after the changed files are grouped, the counts of the candidate
\* groups add up to the number of changed files.
C33_CountsSumToFiles ==
    TitleSynthesized =>
        CountsSum(Candidates(changedFiles)) = Len(changedFiles)

(***************************************************************************)
(* Usage diagnostics. The first response of a description generation, for  *)
(* every usage metadata and visible texts of several lengths.              *)
(***************************************************************************)
\* The greatest token count the provider reports.
MaxTokenCount == 4
\* A count of the usage metadata: missing, negative, zero or positive.
CountValues ==
    { NoCount } \cup { [reported |-> TRUE, value |-> v] : v \in (0 - 1)..MaxTokenCount }
Usages ==
    [promptTokenCount : CountValues, candidatesTokenCount : CountValues,
     totalTokenCount : CountValues, thoughtsTokenCount : CountValues]
\* Complete responses whose text has 0, 1, 4, 5, 9 and 16 characters.
UsageResponses ==
    { [finishReason |-> "STOP", parts |-> << Repeat(<< "a" >>, n) >>] :
          n \in { 0, 1, 4, 5, 9, 16 } }
InitUsage ==
    InitWith({"config"}, {EnvUnset}, {""}, 0, {0}, {"pull_request"}, {<< >>},
             {DefaultRepository}, Usages, {""})
\* run() up to the first response of the description generation.
NextUsage ==
    \/ Run
    \/ \E ok \in BOOLEAN : GitFetchSettles(ok)
    \/ \E r \in UsageResponses : ProviderReturns(r)
SpecUsage == InitUsage /\ [][NextUsage]_vars

\* C34: logUsageDiagnostics divides by a denominator max(1, output tokens)
\* that is at least 1, its reasoning-token count is between 0 and the
\* denominator, and the reasoning ratio and the visible ratio (both over the
\* denominator) lie in [0, 1] and add up to 1.
C34_RatiosWithinDenominator ==
    usageLog.logged =>
        /\ usageLog.denom = Max(1, usageLog.outputTotal)
        /\ usageLog.denom >= 1
        /\ 0 <= usageLog.thoughts /\ usageLog.thoughts <= usageLog.denom
        /\ 0 <= usageLog.visible /\ usageLog.visible <= usageLog.denom
        /\ usageLog.thoughts + usageLog.visible = usageLog.denom
\* The reported reasoning count is greater than the output tokens and is
\* held to them; the text is not empty.
C34_Witness ==
    /\ usageLog.logged
    /\ usageLog.thoughtsReported > usageLog.outputTotal
    /\ usageLog.outputTotal > 1
    /\ usageLog.thoughts = usageLog.outputTotal
    /\ text # << >>

\* The estimate the stated precedence gives when out is the output-token
\* count: the explicit count if one is reported, else what out leaves
\* after the visible estimate.
StatedEstimate(out) ==
    IF usage.thoughtsTokenCount.reported
    THEN usage.thoughtsTokenCount.value
    ELSE Max(0, out - approxVisibleRaw(text))

\* C35: the reasoning-token estimate is the explicit count when one is
\* reported, otherwise max(0, outputTokens - ceil(length(text) / 4)), and 0
\* when neither count is reported; outputTokens read as total - prompt or as
\* the candidates count.
C35_EstimatePrecedence ==
    usageLog.logged =>
        \/ usageLog.thoughts = StatedEstimate(usageLog.outputTotal)
        \/ usageLog.thoughts = StatedEstimate(usageLog.candidates)
\* The part of C35 that holds: with no explicit count and no candidates
\* count, the estimate is max(0, (total - prompt) - ceil(length(text) / 4)).
C35_EstimateFromOutputTotal ==
    (usageLog.logged /\ usageLog.thoughtsReported <= 0 /\ usageLog.candidates <= 0) =>
        usageLog.thoughts = Max(0, usageLog.outputTotal - approxVisibleRaw(text))

\* C36: generateWithRetry switches the model only on an attempt that fails
\* with a transient-unavailable error after 10 consecutive such failures:
\* the counter grows only by one, on such a failure, a success or a
\* rate-limit-only failure leaves the model alone, and any other failure
\* sets the counter to 0.
C36_SwitchOnlyOnPersistent503 ==
    /\ [][currentModelIndex' > currentModelIndex =>
              /\ pc = "awaiting" /\ pc' = "sleeping"
              /\ Is503(err')
              /\ consecutive503 >= Threshold503
              /\ consecutive503' = consecutive503 + 1
              /\ currentModelIndex' = currentModelIndex + 1]_vars
    /\ [][consecutive503' > consecutive503 =>
              /\ pc = "awaiting"
              /\ Is503(err')
              /\ consecutive503' = consecutive503 + 1
              /\ attempt' = attempt]_vars
    /\ [][(pc = "awaiting" /\ err' # NoErr /\ ~Is503(err')) =>
              /\ consecutive503' = 0
              /\ currentModelIndex' <= currentModelIndex
              /\ pc' = "sleeping" => currentModel' = currentModel]_vars
    /\ [][(pc = "awaiting" /\ err' = NoErr) =>
              /\ modelUsed' = currentModel
              /\ currentModelIndex' <= currentModelIndex]_vars
    /\ [](InRetry /\ currentModelIndex >= 1 => attempt > Threshold503)
\* The eleventh attempt in a row failed with a transient-unavailable error
\* and the loop moved to the second model of the ladder.
C36_Witness ==
    /\ pc = "sleeping"
    /\ attempt = Threshold503 + 1
    /\ consecutive503 = Threshold503 + 1
    /\ currentModelIndex = 1
    /\ Is503(err)

\* The generation calls run() has started.
GenerationCalls ==
    Cardinality({ i \in 1..Len(trace) :
                      trace[i] \in { "description:start", "title:start" } })
\* What C37 says of a run whose title update is enabled or not.
TitleOnlyWhen(enabled) ==
    /\ ~enabled =>
           /\ ~Occurs("title:start")
           /\ ~generatedTitle.set
           /\ Occurs("pulls.get") => GenerationCalls = 1
    /\ \A i \in 1..Len(updateRequests) :
           /\ updateRequests[i].body = generatedDescription
           /\ ~enabled => ~updateRequests[i].hasTitle
           /\ updateRequests[i].hasTitle =>
                  /\ generatedTitle.set
                  /\ updateRequests[i].title = generatedTitle.value
                  /\ updateRequests[i].title # << >>
           /\ enabled =>
                  (updateRequests[i].hasTitle <=> generatedTitle.value # << >>)

\* C37 as stated: the title is generated and sent only when update_title is
\* the text true; otherwise run() makes one generation call and the update
\* request carries the body and no title.
C37_TitleOnlyWhenTrue ==
    TitleOnlyWhen(updateTitleInput = << "t", "r", "u", "e" >>)
\* C37: the title is generated and sent only when update_title is the text
\* true in any letter case; otherwise run() makes one generation call and
\* the update request carries the body and no title; when it is, the update
\* request carries the synthesized title if that title is not empty.
C37_TitleOnlyWhenEnabled ==
    TitleOnlyWhen(LowerCase(updateTitleInput) = << "t", "r", "u", "e" >>)
\* update_title is True and the update request carries the synthesized title.
C37_Witness ==
    /\ updateTitleInput = << "T", "r", "u", "e" >>
    /\ updateRequests # << >>
    /\ updateRequests[1].hasTitle
    /\ updateRequests[1].title = generatedTitle.value
    /\ GenerationCalls = 2

\* No pull-request API call is in the sequence of external calls.
NoApiCall(events) == \A i \in 1..Len(events) : events[i] \notin ApiCalls

\* C38: when the description generation fails, or the title generation
\* fails, run() makes no pull-request API call: it goes to its end in
\* failure with no get, no comment and no update, also when the description
\* had been generated.
C38_NoApiCallAfterGenerationFailure ==
    /\ [](pc = "rejected" =>
              /\ NoApiCall(trace)
              /\ comments = << >>
              /\ updateRequests = << >>)
    /\ [][pc = "rejected" =>
              /\ phase' = "done"
              /\ failed' # << >>
              /\ outputs' = << >>
              /\ NoApiCall(trace')
              /\ comments' = << >>
              /\ updateRequests' = << >>]_vars
\* The title generation failed after the description had been generated,
\* and run() has ended in failure.
C38_Witness ==
    /\ pc = "rejected"
    /\ phase = "done"
    /\ Occurs("title:start")
    /\ generatedDescription # << >>
    /\ failed # << >>
    /\ NoApiCall(trace)

(***************************************************************************)
(* The model input of the action.                                          *)
(***************************************************************************)
\* getInput("gemini_model"): not given, a model of the fixed list, or another.
ModelInputs == { "", "gemini-2.5-pro", "gemini-exp" }
InitModelInput ==
    /\ InitWith(Impls, {EnvUnset}, ModelParams, MaxFaults, {0},
                {"pull_request"}, { << >>, << "t", "r", "u", "e" >> },
                {DefaultRepository}, {NoUsage}, ModelInputs)
    /\ modelParam = ConstructorParams(geminiModelInput).model
SpecModelInput == InitModelInput /\ [][Next]_vars

\* The first provider attempt of a generation is in flight.
FirstAttempt == Generating /\ pc = "awaiting" /\ attempt = 1 /\ followUpCalls = 0

\* C39: when the model input of the action is given, the first provider
\* attempt of every generation is sent to that model, which is the first entry
\* of the list of models to try; the first attempt goes to the provider's
\* default model only when no model input is given.
C39_ModelInputUsedFirst ==
    FirstAttempt =>
        /\ geminiModelInput # "" =>
               /\ sentModel = geminiModelInput
               /\ impl = "config" => ordered[1] = geminiModelInput
        /\ sentModel = DefaultModel => geminiModelInput = ""
\* What the code does: the first attempt of every generation of a run goes to
\* the default model whatever the model input is.
C39_DefaultModelAlways ==
    FirstAttempt => sentModel = DefaultModel

====
